---- MODULE Spec2Model ----
(***************************************************************************)
(* Iterators for variables (src/jsvariterator.c): the string-chain cursor, *)
(* the typed-view cursor, the unified cursor's FULL-ARRAY overlay and the  *)
(* callback walker with its two sinks.                                     *)
(*                                                                         *)
(* A string is a chain of cells in `heap` (a sequence indexed by cell      *)
(* reference, 0 is the null reference).  A cell is                         *)
(*   [data, used, cap, lastChild, locks]                                   *)
(* data: the cell's byte storage (cap bytes), used: charactersInVar,       *)
(* cap: jsvGetMaxCharactersInVar, lastChild: reference of the next cell,   *)
(* locks: the lock count.  A cursor's raw pointer `ptr` is modelled by the *)
(* reference of the cell whose storage it addresses.  Operations on a      *)
(* cursor are operators from (heap, cursor) to [h |-> heap', it |-> it'].  *)
(* Flat and native strings (contiguous storage outside the cell) and float *)
(* typed views are left out.  Asserts are modelled as in a debug build: a  *)
(* violated assert sets `asserted` and the run stops there.                *)
(***************************************************************************)
EXTENDS Integers, Sequences, FiniteSets, TLC

VARIABLES heap, it, g

vars == <<heap, it, g>>

\* ------------------------------------------------------------- bounds
MaxCap == 4
MaxLen == 6
MaxOps == 3
MaxViewLen == 3
MaxArrLen == 5
MaxCount == 3
MaxBuf == 4

\* ------------------------------------------------------------ helpers
Min(a, b) == IF a < b THEN a ELSE b

Max(a, b) == IF a > b THEN a ELSE b

\* The cells of a chain from cell r on, in order.
RECURSIVE ChainRefs(_, _)
ChainRefs(h, r) ==
  IF r = 0 THEN <<>> ELSE <<r>> \o ChainRefs(h, h[r].lastChild)

\* The logical bytes of the chain rooted at r: the used prefixes, concatenated.
RECURSIVE ChainBytes(_, _)
ChainBytes(h, r) ==
  IF r = 0 THEN <<>>
  ELSE SubSeq(h[r].data, 1, h[r].used) \o ChainBytes(h, h[r].lastChild)

\* s followed by zeroes up to the capacity.
Pad(s, cap) == s \o [i \in 1..(cap - Len(s)) |-> 0]

NewCell(s, cap) ==
  [data |-> Pad(s, cap), used |-> Len(s), cap |-> cap, lastChild |-> 0, locks |-> 0]

\* A well-formed chain holding s: a root cell of capacity rootCap at
\* reference base+1, then extension cells of capacity extCap, every cell but
\* the tail full.
RECURSIVE ExtCells(_, _, _)
ExtCells(s, extCap, ref) ==
  IF Len(s) = 0 THEN <<>>
  ELSE LET n == Min(Len(s), extCap) IN
       <<[NewCell(SubSeq(s, 1, n), extCap)
            EXCEPT !.lastChild = IF Len(s) > n THEN ref + 1 ELSE 0]>>
       \o ExtCells(SubSeq(s, n + 1, Len(s)), extCap, ref + 1)

MkChain(s, rootCap, extCap, base) ==
  LET n == Min(Len(s), rootCap) IN
  <<[NewCell(SubSeq(s, 1, n), rootCap)
       EXCEPT !.lastChild = IF Len(s) > n THEN base + 2 ELSE 0]>>
  \o ExtCells(SubSeq(s, n + 1, Len(s)), extCap, base + 2)

\* ------------------------------------------------------- lock counting
jsvLock(h, r) == IF r = 0 THEN h ELSE [h EXCEPT ![r].locks = @ + 1]

jsvUnLock(h, r) == IF r = 0 THEN h ELSE [h EXCEPT ![r].locks = @ - 1]

\* ------------------------------------------------- string-chain cursor
NullIt == [var |-> 0, varIndex |-> 0, charsInVar |-> 0, charIdx |-> 0, ptr |-> 0]

\* The while loop of jsvStringIteratorNew.  it->var is the locked string on
\* entry and the loop returns as soon as it sets it->var to 0, so the
\* `if (it->var)` test inside the loop is always true.
RECURSIVE StringIteratorNewLoop(_, _, _)
StringIteratorNewLoop(h, i, startIdx) ==
  IF ~(i.charIdx > 0 /\ i.charIdx >= i.charsInVar) THEN [h |-> h, it |-> i]
  ELSE LET i1 == [i EXCEPT !.charIdx = @ - i.charsInVar,
                           !.varIndex = @ + i.charsInVar] IN
       IF h[i1.var].lastChild # 0
       THEN LET next == h[i1.var].lastChild IN
            StringIteratorNewLoop(
              jsvUnLock(jsvLock(h, next), i1.var),
              [i1 EXCEPT !.var = next, !.ptr = next, !.charsInVar = h[next].used],
              startIdx)
       ELSE [h  |-> jsvUnLock(h, i1.var),
             it |-> [i1 EXCEPT !.var = 0, !.ptr = 0, !.charsInVar = 0,
                               !.varIndex = startIdx - i1.charIdx]]

StringIteratorNewWrong(h, str, startIdx) ==
  StringIteratorNewLoop(
    jsvLock(h, str),
    [var |-> str, varIndex |-> 0, charsInVar |-> h[str].used,
     charIdx |-> Max(startIdx - 1, 0), ptr |-> str],
    startIdx)

jsvStringIteratorNew(h, str, startIdx) ==
  StringIteratorNewLoop(
    jsvLock(h, str),
    [var |-> str, varIndex |-> 0, charsInVar |-> h[str].used,
     charIdx |-> startIdx, ptr |-> str],
    startIdx)

\* clone positioned at the start of the original's cell.
StringIteratorCloneAtStart(h, i) ==
  [h |-> jsvLock(h, i.var), it |-> [i EXCEPT !.charIdx = 0]]

jsvStringIteratorClone(h, i) == [h |-> jsvLock(h, i.var), it |-> i]

jsvStringIteratorHasChar(i) == i.ptr # 0 /\ i.charIdx < i.charsInVar

\* The byte under the cursor (0 when the cursor addresses no storage).
jsvStringIteratorGetChar(h, i) ==
  IF i.ptr # 0 /\ i.charIdx < h[i.ptr].cap THEN h[i.ptr].data[i.charIdx + 1] ELSE 0

\* get-char-or-minus-one that looks at the indices only.
GetCharOrMinusOneNoNull(h, i) ==
  IF i.charIdx >= i.charsInVar THEN -1 ELSE 0

jsvStringIteratorGetCharOrMinusOne(h, i) ==
  IF i.ptr = 0 \/ i.charIdx >= i.charsInVar THEN -1
  ELSE h[i.ptr].data[i.charIdx + 1]

jsvStringIteratorSetChar(h, i, c) ==
  IF jsvStringIteratorHasChar(i)
  THEN [h |-> [h EXCEPT ![i.ptr].data[i.charIdx + 1] = c], it |-> i]
  ELSE [h |-> h, it |-> i]

\* next: charIdx+1; on reaching charsInVar go to the last-child, or to
\* logical end when there is none.
jsvStringIteratorNextInline(h, i) ==
  LET c == i.charIdx + 1 IN
  IF c < i.charsInVar THEN [h |-> h, it |-> [i EXCEPT !.charIdx = c]]
  ELSE IF i.var # 0 /\ h[i.var].lastChild # 0
       THEN LET next == h[i.var].lastChild IN
            [h  |-> jsvUnLock(jsvLock(h, next), i.var),
             it |-> [var |-> next, ptr |-> next, charsInVar |-> h[next].used,
                     charIdx |-> c - i.charsInVar,
                     varIndex |-> i.varIndex + i.charsInVar]]
       ELSE [h  |-> jsvUnLock(h, i.var),
             it |-> [var |-> 0, ptr |-> 0, charsInVar |-> 0,
                     charIdx |-> c - i.charsInVar,
                     varIndex |-> i.varIndex + i.charsInVar]]

jsvStringIteratorNext(h, i) == jsvStringIteratorNextInline(h, i)

jsvStringIteratorSetCharAndNext(h, i, c) ==
  LET w == jsvStringIteratorSetChar(h, i, c) IN jsvStringIteratorNextInline(w.h, w.it)

jsvStringIteratorFree(h, i) == [h |-> jsvUnLock(h, i.var), it |-> i]

\* The while loop of jsvStringIteratorGotoEnd.
RECURSIVE StringIteratorGotoEndLoop(_, _)
StringIteratorGotoEndLoop(h, i) ==
  IF h[i.var].lastChild = 0 THEN [h |-> h, it |-> i]
  ELSE LET next == h[i.var].lastChild IN
       StringIteratorGotoEndLoop(
         jsvUnLock(jsvLock(h, next), i.var),
         [i EXCEPT !.var = next, !.varIndex = @ + i.charsInVar,
                   !.charsInVar = h[next].used])

\* assert(it->var) is the caller's obligation: see GotoEndAssert.
jsvStringIteratorGotoEnd(h, i) ==
  LET w == StringIteratorGotoEndLoop(h, i) IN
  [h  |-> w.h,
   it |-> [w.it EXCEPT !.ptr = w.it.var,
                       !.charIdx = IF w.it.charsInVar # 0
                                   THEN w.it.charsInVar - 1 ELSE 0]]

GotoEndAssert(i) == i.var # 0

\* The asserts of jsvStringIteratorAppend that can be evaluated on entry.
AppendAssert(h, i) ==
  i.var = 0
  \/ /\ IF i.charsInVar > 0 THEN i.charIdx + 1 = i.charsInVar ELSE i.charIdx = 0
     /\ LET c == IF i.charsInVar > 0 THEN i.charIdx + 1 ELSE i.charIdx IN
        c >= h[i.var].cap => h[i.var].lastChild = 0

\* Whether this append has to allocate an extension cell.
AppendAllocates(h, i) ==
  /\ i.var # 0
  /\ (IF i.charsInVar > 0 THEN i.charIdx + 1 ELSE i.charIdx) >= h[i.var].cap

\* AppendStore that forgets jsvSetCharactersInVar.
AppendStoreWrong(h, i, ch) ==
  LET n == i.charIdx + 1 IN
  [h  |-> [h EXCEPT ![i.ptr].data[n] = ch],
   it |-> [i EXCEPT !.charsInVar = n]]

\* The tail of jsvStringIteratorAppend: write ch at charIdx of the current
\* cell and store the new used length in the cursor and in the cell.
AppendStore(h, i, ch) ==
  LET n == i.charIdx + 1 IN
  [h  |-> [h EXCEPT ![i.ptr].data[n] = ch, ![i.var].used = n],
   it |-> [i EXCEPT !.charsInVar = n]]

\* jsvStringIteratorAppend without the jsvSetLastChild call.
StringIteratorAppendNoLink(h, i, ch, extCap, allocOk) ==
  IF i.var = 0 THEN [h |-> h, it |-> i]
  ELSE LET i1 == IF i.charsInVar > 0 THEN [i EXCEPT !.charIdx = @ + 1] ELSE i IN
       IF i1.charIdx >= h[i1.var].cap
       THEN IF ~allocOk
            THEN [h  |-> jsvUnLock(h, i1.var),
                  it |-> [i1 EXCEPT !.var = 0, !.ptr = 0, !.charIdx = 0]]
            ELSE LET next == Len(h) + 1
                     h1   == Append(h, [NewCell(<<>>, extCap) EXCEPT !.locks = 1])
                 IN  AppendStore(
                       jsvUnLock(h1, i1.var),
                       [i1 EXCEPT !.var = next, !.ptr = next,
                                  !.varIndex = @ + i1.charIdx, !.charIdx = 0],
                       ch)
       ELSE AppendStore(h, i1, ch)

\* extCap: the capacity of a JSV_STRING_EXT_0 cell; allocOk: whether
\* jsvNewWithFlags returns a cell (locked once) or 0.
jsvStringIteratorAppend(h, i, ch, extCap, allocOk) ==
  IF i.var = 0 THEN [h |-> h, it |-> i]
  ELSE LET i1 == IF i.charsInVar > 0 THEN [i EXCEPT !.charIdx = @ + 1] ELSE i IN
       IF i1.charIdx >= h[i1.var].cap
       THEN IF ~allocOk
            THEN [h  |-> jsvUnLock(h, i1.var),
                  it |-> [i1 EXCEPT !.var = 0, !.ptr = 0, !.charIdx = 0]]
            ELSE LET next == Len(h) + 1
                     h1   == Append(h, [NewCell(<<>>, extCap) EXCEPT !.locks = 1])
                     h2   == [h1 EXCEPT ![i1.var].lastChild = next]
                 IN  AppendStore(
                       jsvUnLock(h2, i1.var),
                       [i1 EXCEPT !.var = next, !.ptr = next,
                                  !.varIndex = @ + i1.charIdx, !.charIdx = 0],
                       ch)
       ELSE AppendStore(h, i1, ch)

\* The while loop of jsvStringIteratorAppendString, sit being the cursor on
\* the source string (whose cells are in the same heap).
RECURSIVE StringIteratorAppendStringLoop(_, _, _, _, _)
StringIteratorAppendStringLoop(h, i, sit, extCap, allocOk) ==
  IF ~jsvStringIteratorHasChar(sit) THEN [h |-> h, it |-> i, sit |-> sit]
  ELSE LET a == jsvStringIteratorAppend(h, i, jsvStringIteratorGetChar(h, sit),
                                        extCap, allocOk)
           n == jsvStringIteratorNext(a.h, sit)
       IN  StringIteratorAppendStringLoop(n.h, a.it, n.it, extCap, allocOk)

\* append-string that starts at the source's first byte.
AppendStringFromStart(h, i, str, startIdx, extCap, allocOk) ==
  LET s == jsvStringIteratorNew(h, str, 0)
      w == StringIteratorAppendStringLoop(s.h, i, s.it, extCap, allocOk)
  IN  [h |-> jsvStringIteratorFree(w.h, w.sit).h, it |-> w.it]

jsvStringIteratorAppendString(h, i, str, startIdx, extCap, allocOk) ==
  LET s == jsvStringIteratorNew(h, str, startIdx)
      w == StringIteratorAppendStringLoop(s.h, i, s.it, extCap, allocOk)
  IN  [h |-> jsvStringIteratorFree(w.h, w.sit).h, it |-> w.it]

\* ------------------------------------------- string cursor: the machine
\* g (bookkeeping of the run): s0 the chain's bytes at creation, p0 the start
\* index, extCap the capacity of extension cells, out the bytes read by the
\* has-char / get-char / next loop, ops the other operations applied so
\* far, app the bytes appended, oom whether an allocation failed, asserted
\* whether an assert was violated.
Letters(n) == [i \in 1..n |-> 96 + i]

AppendChars == {101, 120}

\* The strings append-string appends.
SourceStrings == {<<120, 121, 122>>}

\* The bytes set-char writes.
SetChars == {35}

StrInit ==
  \E rootCap \in 1..MaxCap, extCap \in 1..MaxCap, n \in 0..MaxLen, p \in 0..(MaxLen + 1) :
    LET w == jsvStringIteratorNew(MkChain(Letters(n), rootCap, extCap, 0), 1, p) IN
    /\ heap = w.h
    /\ it = w.it
    /\ g = [s0 |-> Letters(n), p0 |-> p, extCap |-> extCap, out |-> <<>>,
            ops |-> <<>>, app |-> <<>>, oom |-> FALSE, asserted |-> FALSE]

\* One turn of the loop  while (has-char) { get-char; next }.
StrRead ==
  /\ ~g.asserted
  /\ g.ops = <<>>
  /\ jsvStringIteratorHasChar(it)
  /\ LET w == jsvStringIteratorNext(heap, it) IN
     /\ heap' = w.h
     /\ it' = w.it
     /\ g' = [g EXCEPT !.out = Append(@, jsvStringIteratorGetChar(heap, it))]

StrNext ==
  /\ ~g.asserted
  /\ Len(g.ops) < MaxOps
  /\ LET w == jsvStringIteratorNext(heap, it) IN
     /\ heap' = w.h
     /\ it' = w.it
     /\ g' = [g EXCEPT !.ops = Append(@, "next")]

StrGotoEnd ==
  /\ ~g.asserted
  /\ Len(g.ops) < MaxOps
  /\ IF GotoEndAssert(it)
     THEN LET w == jsvStringIteratorGotoEnd(heap, it) IN
          /\ heap' = w.h
          /\ it' = w.it
          /\ g' = [g EXCEPT !.ops = Append(@, "gotoend")]
     ELSE /\ g' = [g EXCEPT !.asserted = TRUE]
          /\ UNCHANGED <<heap, it>>

StrAppend ==
  /\ ~g.asserted
  /\ Len(g.ops) < MaxOps
  /\ \E ch \in AppendChars, allocOk \in BOOLEAN :
       /\ allocOk \/ AppendAllocates(heap, it)
       /\ IF AppendAssert(heap, it)
          THEN LET w == jsvStringIteratorAppend(heap, it, ch, g.extCap, allocOk) IN
               /\ heap' = w.h
               /\ it' = w.it
               /\ g' = [g EXCEPT !.ops = Append(@, "append"),
                                 !.app = Append(@, ch),
                                 !.oom = @ \/ ~allocOk]
          ELSE /\ g' = [g EXCEPT !.asserted = TRUE]
               /\ UNCHANGED <<heap, it>>

StrSetChar ==
  /\ ~g.asserted
  /\ Len(g.ops) < MaxOps
  /\ \E c \in SetChars :
     \E w \in {jsvStringIteratorSetChar(heap, it, c)} :
       /\ heap' = w.h
       /\ it' = w.it
       /\ g' = [g EXCEPT !.ops = Append(@, "setchar")]

\* append-string of a string the caller has just made (its cells are new
\* in the heap) from startIdx on.
StrAppendString ==
  /\ ~g.asserted
  /\ Len(g.ops) < MaxOps
  /\ \E src \in SourceStrings, startIdx \in 0..1, allocOk \in BOOLEAN :
       /\ allocOk \/ AppendAllocates(heap, it)
       /\ IF AppendAssert(heap, it)
          THEN \E w \in {jsvStringIteratorAppendString(
                            heap \o MkChain(src, g.extCap, g.extCap, Len(heap)),
                            it, Len(heap) + 1, startIdx, g.extCap, allocOk)} :
                 /\ heap' = w.h
                 /\ it' = w.it
                 /\ g' = [g EXCEPT !.ops = Append(@, "appendstring"),
                                   !.app = @ \o SubSeq(src, startIdx + 1, Len(src)),
                                   !.oom = @ \/ (it.var # 0 /\ w.it.var = 0)]
          ELSE /\ g' = [g EXCEPT !.asserted = TRUE]
               /\ UNCHANGED <<heap, it>>

StrNextAct == StrRead \/ StrNext \/ StrGotoEnd \/ StrAppend

StrOpsNextAct ==
  \/ StrRead
  \/ StrNext
  \/ StrGotoEnd
  \/ StrAppend
  \/ StrSetChar
  \/ StrAppendString

\* The string machine with set-char and append-string.
SpecStrOps == StrInit /\ [][StrOpsNextAct]_vars

SpecStr == StrInit /\ [][StrNextAct]_vars

\* ---------------------------------------------------- claims: strings
IsPrefix(a, b) == Len(a) <= Len(b) /\ a = SubSeq(b, 1, Len(a))

\* ops is goto-end followed only by appends.
GotoEndThenAppends ==
  /\ Len(g.ops) >= 1
  /\ g.ops[1] = "gotoend"
  /\ \A k \in 2..Len(g.ops) : g.ops[k] = "append"

\* What the read loop has produced so far is the run of bytes from p0 on,
\* and all of s0[p0..] once has-char is false.
ReadsSuffix ==
  /\ g.out = SubSeq(g.s0, g.p0 + 1, g.p0 + Len(g.out))
  /\ g.p0 + Len(g.out) <= Len(g.s0)
  /\ ~jsvStringIteratorHasChar(it) => g.out = SubSeq(g.s0, g.p0 + 1, Len(g.s0))

\* C1 as stated: a cursor created at p < length(s) and driven by has-char /
\* get-char / next yields s[p..] exactly; for p >= length(s) the cursor is
\* created at logical end, with a null cell, and yields nothing.
C1_Original ==
  g.ops = <<>> =>
    /\ g.p0 < Len(g.s0) => ReadsSuffix
    /\ g.p0 >= Len(g.s0) =>
         it.var = 0 /\ g.out = <<>> /\ ~jsvStringIteratorHasChar(it)

\* C1 amended: as C1 for p < length(s); for p >= length(s) the cursor yields
\* nothing, and its cell reference is null when p > 0, while for p = 0 on an
\* empty chain the cursor holds the (empty) root cell.
C1_ReadFromP ==
  g.ops = <<>> =>
    /\ g.p0 < Len(g.s0) => ReadsSuffix
    /\ g.p0 >= Len(g.s0) =>
         /\ g.out = <<>>
         /\ ~jsvStringIteratorHasChar(it)
         /\ g.p0 > 0 => it.var = 0 /\ it.ptr = 0
         /\ g.p0 = 0 => it.var = 1 /\ it.ptr = 1 /\ heap[1].locks = 1

\* "abcdef" in cells of capacity 4, read from index 3 to the end: "def".
C1_Witness ==
  /\ g.ops = <<>>
  /\ g.s0 = Letters(6)
  /\ heap[1].cap = 4
  /\ g.extCap = 4
  /\ g.p0 = 3
  /\ g.out = <<100, 101, 102>>
  /\ ~jsvStringIteratorHasChar(it)

\* C2: from a cursor positioned by goto-end, k appends without allocation
\* failure leave the chain's bytes equal to the old bytes followed by the k
\* appended bytes, and the cursor is again at the tail's last byte (the
\* next append's asserts hold).
C2_AppendGrows ==
  (GotoEndThenAppends /\ ~g.oom) =>
    /\ ChainBytes(heap, 1) = g.s0 \o g.app
    /\ it.var # 0
    /\ AppendAssert(heap, it)

\* Two appends that each allocate an extension cell, on a non-empty chain.
C2_Witness ==
  /\ g.ops = <<"gotoend", "append", "append">>
  /\ ~g.oom
  /\ Len(g.s0) >= 2
  /\ Len(heap) = Len(MkChain(g.s0, heap[1].cap, g.extCap, 0)) + 2
  /\ g.app = <<101, 120>>

\* The chain "abcd" in one full cell of capacity 4, capacity-4 extensions,
\* a cursor created on it, 'e' appended once and no allocation failure.
AbcdFullCell ==
  /\ g.s0 = Letters(4)
  /\ heap[1].cap = 4
  /\ g.extCap = 4
  /\ g.p0 < 4
  /\ g.out = <<>>
  /\ g.app = <<101>>
  /\ ~g.oom

\* A new extension cell holding "e" alone hangs off the old tail (cell 1).
AbcdeInTwoCells ==
  /\ Len(heap) = 2
  /\ heap[1].lastChild = 2
  /\ heap[2].used = 1
  /\ heap[2].lastChild = 0
  /\ ChainBytes(heap, 1) = Letters(5)

\* C3 as stated: on "abcd" in a full capacity-4 cell, goto-end, next,
\* append('e') allocates an extension cell of used length 1, linked as
\* last-child of the old tail, and the chain reads "abcde".
C3_Original ==
  (AbcdFullCell /\ g.ops = <<"gotoend", "next", "append">>) => AbcdeInTwoCells

\* C3 amended: goto-end, append('e') (no next in between) does that; with the
\* next in between the cursor is at logical end before the append, which
\* then changes nothing: the chain is still the one cell "abcd".
C3_AppendAfterGotoEnd ==
  /\ (AbcdFullCell /\ g.ops = <<"gotoend", "append">>) =>
       AbcdeInTwoCells /\ it.var = 2 /\ it.charIdx = 0 /\ it.varIndex = 4
  /\ (AbcdFullCell /\ g.ops = <<"gotoend", "next", "append">>) =>
       /\ it.var = 0
       /\ Len(heap) = 1
       /\ heap[1].lastChild = 0
       /\ ChainBytes(heap, 1) = Letters(4)

C3_Witness ==
  /\ AbcdFullCell
  /\ g.ops = <<"gotoend", "append">>
  /\ ~g.oom
  /\ g.p0 = 0
  /\ ChainBytes(heap, 1) = Letters(5)

\* ==================================================== typed-view cursor
\* A type tag is [size, signed, float, clamped, bigEndian] (the fields the
\* JSV_ARRAYBUFFER_* macros extract); ARRAYBUFFERVIEW_UNDEFINED has size 0.
\* A view is [type, length, byteOffset, backing]: length in elements,
\* backing the reference of the backing string's root cell.  The cursor is
\* [index, type, byteLength, byteOffset, hasAccessedElement, it].
\* JsVarInt is a 32-bit two's-complement integer and the host is
\* little-endian (*(int*)data reads and writes the low byte first).
\* byteLength, byteOffset and index are computed without wrap-around.
\* A numeric JsVar is [big, n]: the integer n (a JsVarInt) when big is
\* FALSE, and the number n + 2^32 (n < 0, held as a float because it does
\* not fit a JsVarInt) when big is TRUE.
ARRAYBUFFERVIEW_UNDEFINED ==
  [size |-> 0, signed |-> FALSE, float |-> FALSE, clamped |-> FALSE, bigEndian |-> FALSE]

IntType(size, signed, clamped, bigEndian) ==
  [size |-> size, signed |-> signed, float |-> FALSE, clamped |-> clamped,
   bigEndian |-> bigEndian]

Pow2(n) == 2 ^ n

IntVal(n) == [big |-> FALSE, n |-> n]

BigVal(n) == [big |-> TRUE, n |-> n]

\* jsvGetInteger: the integer itself; a float beyond the JsVarInt range is
\* converted through long long to JsVarInt, which leaves its low 32 bits.
jsvGetInteger(value) == value.n

\* jsvNewFromLongInteger((long long)(uint32_t)i).
jsvNewFromLongInteger(i) == IF i < 0 THEN BigVal(i) ELSE IntVal(i)

\* The int stored by *(int*)data = (int)v, as the bytes data[0..3]
\* (two's complement: \div rounds down).
IntBytes(v) == [k \in 1..4 |-> (v \div Pow2(8 * (k - 1))) % 256]

\* The first n bytes of data as a little-endian number.
RECURSIVE LEValue(_, _)
LEValue(data, n) ==
  IF n = 0 THEN 0 ELSE data[1] + 256 * LEValue(Tail(data), n - 1)

\* old: what the caller's JsvArrayBufferIterator held before the call; the
\* early return leaves it.it and hasAccessedElement as they were.
jsvArrayBufferIteratorNew(h, ab, index, old) ==
  LET size       == ab.type.size
      byteLength == ab.length * size + ab.byteOffset
      byteOffset == ab.byteOffset + index * size
      h1         == jsvLock(h, ab.backing)
  IN  IF byteOffset >= byteLength + 1 - size
      THEN [h  |-> jsvUnLock(h1, ab.backing),
            it |-> [old EXCEPT !.index = index, !.type = ARRAYBUFFERVIEW_UNDEFINED,
                               !.byteLength = byteLength, !.byteOffset = byteOffset]]
      ELSE LET w == jsvStringIteratorNew(h1, ab.backing, byteOffset) IN
           [h  |-> jsvUnLock(w.h, ab.backing),
            it |-> [index |-> index, type |-> ab.type, byteLength |-> byteLength,
                    byteOffset |-> byteOffset, hasAccessedElement |-> FALSE,
                    it |-> w.it]]

jsvArrayBufferIteratorClone(h, a) ==
  LET w == jsvStringIteratorClone(h, a.it) IN [h |-> w.h, it |-> [a EXCEPT !.it = w.it]]

\* The loops of jsvArrayBufferIteratorGetValueData: the n-th byte read
\* (n = 1..dataLen) goes to data[dataLen-n] on a big-endian view and to
\* data[n-1] otherwise.  `data` is the array as a sequence (data[0] first).
RECURSIVE GetValueDataLoop(_, _, _, _, _)
GetValueDataLoop(h, i, data, n, type) ==
  IF n > type.size THEN [h |-> h, it |-> i, data |-> data]
  ELSE LET slot == IF type.bigEndian THEN type.size - n + 1 ELSE n
           d    == [data EXCEPT ![slot] = jsvStringIteratorGetChar(h, i)]
           w    == IF type.size # 1 THEN jsvStringIteratorNext(h, i)
                   ELSE [h |-> h, it |-> i]
       IN  GetValueDataLoop(w.h, w.it, d, n + 1, type)

jsvArrayBufferIteratorGetValueData(h, a) ==
  IF a.type = ARRAYBUFFERVIEW_UNDEFINED THEN [h |-> h, it |-> a, data |-> <<>>]
  ELSE LET w == GetValueDataLoop(h, a.it, [k \in 1..a.type.size |-> 0], 1, a.type) IN
       [h    |-> w.h,
        it   |-> [a EXCEPT !.it = w.it,
                           !.hasAccessedElement = IF a.type.size # 1 THEN TRUE ELSE @],
        data |-> w.data]

\* v = *(int*)data & mask, sign bits set when the tag is signed and the top
\* bit of the element is set.  With bits = 32 the mask is all of JsVarInt.
jsvArrayBufferIteratorDataToInt(type, data) ==
  LET bits == 8 * type.size IN
  IF bits = 32
  THEN LEValue(data, 3)
       + Pow2(24) * (IF data[4] >= 128 THEN data[4] - 256 ELSE data[4])
  ELSE LET raw == LEValue(data, type.size) IN
       IF type.signed /\ raw >= Pow2(bits - 1) THEN raw - Pow2(bits) ELSE raw

IsUint32(type) == type.size = 4 /\ ~type.signed /\ ~type.float /\ ~type.clamped

\* The number held by the JsVar that jsvArrayBufferIteratorGetValue returns.
ValueOfInt(type, i) == IF IsUint32(type) THEN jsvNewFromLongInteger(i) ELSE IntVal(i)

jsvArrayBufferIteratorGetValue(h, a) ==
  IF a.type = ARRAYBUFFERVIEW_UNDEFINED THEN [h |-> h, it |-> a, v |-> IntVal(0)]
  ELSE LET w == jsvArrayBufferIteratorGetValueData(h, a) IN
       [h |-> w.h, it |-> w.it,
        v |-> ValueOfInt(a.type, jsvArrayBufferIteratorDataToInt(a.type, w.data))]

\* get-and-rewind that leaves the inner cursor where the read left it.
ArrayBufferIteratorGetValueNoRewind(h, a) == jsvArrayBufferIteratorGetValue(h, a)

jsvArrayBufferIteratorGetValueAndRewind(h, a) ==
  LET old == jsvStringIteratorClone(h, a.it)
      w   == jsvArrayBufferIteratorGetValue(old.h, a)
      f   == jsvStringIteratorFree(w.h, w.it.it)
  IN  [h |-> f.h, it |-> [w.it EXCEPT !.it = old.it, !.hasAccessedElement = FALSE],
       v |-> w.v]

jsvArrayBufferIteratorGetIntegerValue(h, a) ==
  IF a.type = ARRAYBUFFERVIEW_UNDEFINED THEN [h |-> h, it |-> a, v |-> 0]
  ELSE LET w == jsvArrayBufferIteratorGetValueData(h, a) IN
       [h |-> w.h, it |-> w.it, v |-> jsvArrayBufferIteratorDataToInt(a.type, w.data)]

\* IntToData without the saturation of the clamped tag.
IntToDataNoClamp(type, v) == IntBytes(v)

jsvArrayBufferIteratorIntToData(type, v) ==
  IF type.clamped THEN IntBytes(IF v < 0 THEN 0 ELSE IF v > 255 THEN 255 ELSE v)
  ELSE IntBytes(v)

\* The store loops: the n-th byte written (n = 1..dataLen) is
\* data[dataLen-n] when bigEndian and data[n-1] otherwise.
RECURSIVE SetDataLoop(_, _, _, _, _, _)
SetDataLoop(h, i, data, n, size, bigEndian) ==
  IF n > size THEN [h |-> h, it |-> i]
  ELSE LET slot == IF bigEndian THEN size - n + 1 ELSE n
           s    == jsvStringIteratorSetChar(h, i, data[slot])
           w    == IF size # 1 THEN jsvStringIteratorNext(s.h, s.it) ELSE s
       IN  SetDataLoop(w.h, w.it, data, n + 1, size, bigEndian)

jsvArrayBufferIteratorSetIntegerValue(h, a, v) ==
  IF a.type = ARRAYBUFFERVIEW_UNDEFINED THEN [h |-> h, it |-> a]
  ELSE LET w == SetDataLoop(h, a.it, jsvArrayBufferIteratorIntToData(a.type, v), 1,
                            a.type.size, FALSE) IN
       [h  |-> w.h,
        it |-> [a EXCEPT !.it = w.it,
                         !.hasAccessedElement = IF a.type.size # 1 THEN TRUE ELSE @]]

\* set-value storing data[0] first whatever the tag's byte order.
SetValueNoEndian(h, a, value) ==
  jsvArrayBufferIteratorSetIntegerValue(h, a, jsvGetInteger(value))

jsvArrayBufferIteratorSetValue(h, a, value) ==
  IF a.type = ARRAYBUFFERVIEW_UNDEFINED THEN [h |-> h, it |-> a]
  ELSE LET w == SetDataLoop(h, a.it,
                            jsvArrayBufferIteratorIntToData(a.type, jsvGetInteger(value)),
                            1, a.type.size, a.type.bigEndian) IN
       [h  |-> w.h,
        it |-> [a EXCEPT !.it = w.it,
                         !.hasAccessedElement = IF a.type.size # 1 THEN TRUE ELSE @]]

\* assert(!it->hasAccessedElement) of the element reads and writes.
NotAccessedAssert(a) == a.type = ARRAYBUFFERVIEW_UNDEFINED \/ ~a.hasAccessedElement

\* Defined for one-byte elements only (assert(0) otherwise: SetByteAssert).
jsvArrayBufferIteratorSetByteValue(h, a, c) ==
  IF a.type.size # 1 THEN [h |-> h, it |-> a]
  ELSE LET w == jsvStringIteratorSetChar(h, a.it, c) IN
       [h |-> w.h, it |-> [a EXCEPT !.it = w.it]]

SetByteAssert(a) == a.type.size = 1

jsvArrayBufferIteratorSetValueAndRewind(h, a, value) ==
  LET old == jsvStringIteratorClone(h, a.it)
      w   == jsvArrayBufferIteratorSetValue(old.h, a, value)
      f   == jsvStringIteratorFree(w.h, w.it.it)
  IN  [h |-> f.h, it |-> [w.it EXCEPT !.it = old.it, !.hasAccessedElement = FALSE]]

jsvArrayBufferIteratorGetIndex(a) == a.index

jsvArrayBufferIteratorHasElement(a) ==
  IF a.type = ARRAYBUFFERVIEW_UNDEFINED THEN FALSE
  ELSE IF a.hasAccessedElement THEN TRUE
  ELSE a.byteOffset + a.type.size <= a.byteLength

RECURSIVE StringIteratorNextTimes(_, _, _)
StringIteratorNextTimes(h, i, n) ==
  IF n = 0 THEN [h |-> h, it |-> i]
  ELSE LET w == jsvStringIteratorNext(h, i) IN StringIteratorNextTimes(w.h, w.it, n - 1)

\* next moving the inner cursor by the width whatever the flag.
ArrayBufferIteratorNextAlways(h, a) ==
  LET w == StringIteratorNextTimes(h, a.it, a.type.size) IN
  [h  |-> w.h,
   it |-> [a EXCEPT !.index = @ + 1, !.byteOffset = @ + a.type.size, !.it = w.it,
                    !.hasAccessedElement = FALSE]]

jsvArrayBufferIteratorNext(h, a) ==
  LET a1 == [a EXCEPT !.index = @ + 1, !.byteOffset = @ + a.type.size] IN
  IF ~a.hasAccessedElement
  THEN LET w == StringIteratorNextTimes(h, a.it, a.type.size) IN
       [h |-> w.h, it |-> [a1 EXCEPT !.it = w.it]]
  ELSE [h |-> h, it |-> [a1 EXCEPT !.hasAccessedElement = FALSE]]

jsvArrayBufferIteratorFree(h, a) ==
  IF a.type = ARRAYBUFFERVIEW_UNDEFINED THEN [h |-> h, it |-> a]
  ELSE LET w == jsvStringIteratorFree(h, a.it) IN [h |-> w.h, it |-> a]

\* --------------------------------------------- typed view: the machine
\* heap holds the backing string (root cell 1), it the typed-view cursor.
\* g: view the view, b0 the backing bytes at creation, rd the value read
\* at the cursor's element by get-value (st "read") and whether it has
\* just been written back (st "writtenback"), written the last sample
\* value written to each element, asserted.
BufTypes ==
  {IntType(1, FALSE, FALSE, FALSE), IntType(1, TRUE, FALSE, FALSE),
   IntType(1, FALSE, TRUE, FALSE)}
  \cup {IntType(size, signed, FALSE, be) :
          size \in {2, 4}, signed \in BOOLEAN, be \in BOOLEAN}

\* Backing bytes: FF FF FF FE from the view's first byte, mixed bytes
\* around them (i is the byte's place in the backing string, from 1).
PatByte(i, off) ==
  IF i > off /\ i <= off + 3 THEN 255
  ELSE IF i = off + 4 THEN 254
  ELSE (i * 37 + 11) % 256

\* Sample values: a negative one, one in range, and one past the width with the sign bit
\* of the width set (for 4 bytes: 2^31 + 1, which a JsVar holds as a float).
BufVals(size) ==
  {IntVal(-2), IntVal(100)}
  \cup (IF size = 1 THEN {IntVal(384)}
        ELSE IF size = 2 THEN {IntVal(98304)}
        ELSE {BigVal(-2147483647)})

NoCursor ==
  [index |-> 0, type |-> ARRAYBUFFERVIEW_UNDEFINED, byteLength |-> 0, byteOffset |-> 0,
   hasAccessedElement |-> FALSE, it |-> NullIt]

NoRead == [st |-> "none", idx |-> 0, val |-> IntVal(0)]

BufInit ==
  \E type \in BufTypes, len \in 1..MaxViewLen, off \in {0, 1} :
    LET n    == off + len * type.size + 1
        s    == [i \in 1..n |-> PatByte(i, off)]
        cap  == MaxCap - 1
        view == [type |-> type, length |-> len, byteOffset |-> off, backing |-> 1]
        w    == jsvArrayBufferIteratorNew(MkChain(s, cap, cap, 0), view, 0, NoCursor)
    IN  /\ heap = w.h
        /\ it = w.it
        /\ g = [view |-> view, b0 |-> s, rd |-> NoRead,
                written |-> [k \in 0..(len - 1) |-> [how |-> "none", v |-> IntVal(0)]],
                asserted |-> FALSE]

\* A fresh cursor at element k: free the old one, create the new one.
BufNew ==
  /\ ~g.asserted
  /\ \E k \in 0..g.view.length :
       LET f == jsvArrayBufferIteratorFree(heap, it)
           w == jsvArrayBufferIteratorNew(f.h, g.view, k, f.it)
       IN  /\ heap' = w.h
           /\ it' = w.it
           /\ g' = [g EXCEPT !.rd = IF g.rd.st = "read" /\ g.rd.idx = k THEN g.rd ELSE NoRead]

BufGetValue ==
  /\ ~g.asserted
  /\ jsvArrayBufferIteratorHasElement(it)
  /\ IF NotAccessedAssert(it)
     THEN LET w == jsvArrayBufferIteratorGetValue(heap, it) IN
          /\ heap' = w.h
          /\ it' = w.it
          /\ g' = [g EXCEPT !.rd = [st |-> "read", idx |-> it.index, val |-> w.v]]
     ELSE /\ g' = [g EXCEPT !.asserted = TRUE]
          /\ UNCHANGED <<heap, it>>

BufGetRewind ==
  /\ ~g.asserted
  /\ jsvArrayBufferIteratorHasElement(it)
  /\ IF NotAccessedAssert(it)
     THEN LET w == jsvArrayBufferIteratorGetValueAndRewind(heap, it) IN
          /\ heap' = w.h
          /\ it' = w.it
          /\ g' = [g EXCEPT !.rd = [st |-> "read", idx |-> it.index, val |-> w.v]]
     ELSE /\ g' = [g EXCEPT !.asserted = TRUE]
          /\ UNCHANGED <<heap, it>>

BufGetInteger ==
  /\ ~g.asserted
  /\ jsvArrayBufferIteratorHasElement(it)
  /\ IF NotAccessedAssert(it)
     THEN LET w == jsvArrayBufferIteratorGetIntegerValue(heap, it) IN
          /\ heap' = w.h
          /\ it' = w.it
          /\ g' = [g EXCEPT !.rd = NoRead]
     ELSE /\ g' = [g EXCEPT !.asserted = TRUE]
          /\ UNCHANGED <<heap, it>>

Wrote(how, v) ==
  [g EXCEPT !.rd = NoRead, !.written[it.index] = [how |-> how, v |-> v]]

\* set-value of a sample value.
BufSetValue ==
  /\ ~g.asserted
  /\ jsvArrayBufferIteratorHasElement(it)
  /\ IF NotAccessedAssert(it)
     THEN \E v \in BufVals(g.view.type.size) :
            LET w == jsvArrayBufferIteratorSetValue(heap, it, v) IN
            /\ heap' = w.h
            /\ it' = w.it
            /\ g' = Wrote("value", v)
     ELSE /\ g' = [g EXCEPT !.asserted = TRUE]
          /\ UNCHANGED <<heap, it>>

\* set-value of the value that was read at the cursor's element.
BufWriteBack ==
  /\ ~g.asserted
  /\ jsvArrayBufferIteratorHasElement(it)
  /\ g.rd.st = "read"
  /\ g.rd.idx = it.index
  /\ IF NotAccessedAssert(it)
     THEN LET w == jsvArrayBufferIteratorSetValue(heap, it, g.rd.val) IN
          /\ heap' = w.h
          /\ it' = w.it
          /\ g' = [g EXCEPT !.rd.st = "writtenback"]
     ELSE /\ g' = [g EXCEPT !.asserted = TRUE]
          /\ UNCHANGED <<heap, it>>

\* set-integer takes a JsVarInt.
BufSetInteger ==
  /\ ~g.asserted
  /\ jsvArrayBufferIteratorHasElement(it)
  /\ IF NotAccessedAssert(it)
     THEN \E v \in {x \in BufVals(g.view.type.size) : ~x.big} :
            LET w == jsvArrayBufferIteratorSetIntegerValue(heap, it, v.n) IN
            /\ heap' = w.h
            /\ it' = w.it
            /\ g' = Wrote("integer", v)
     ELSE /\ g' = [g EXCEPT !.asserted = TRUE]
          /\ UNCHANGED <<heap, it>>

BufNext ==
  /\ ~g.asserted
  /\ jsvArrayBufferIteratorHasElement(it)
  /\ LET w == jsvArrayBufferIteratorNext(heap, it) IN
     /\ heap' = w.h
     /\ it' = w.it
     /\ g' = [g EXCEPT !.rd = NoRead]

BufNextAct ==
  \/ BufNew
  \/ BufGetValue
  \/ BufGetRewind
  \/ BufGetInteger
  \/ BufSetValue
  \/ BufWriteBack
  \/ BufNext

\* The typed-view cursor written through set-value.
SpecBuf == BufInit /\ [][BufNextAct]_vars

BufIntNextAct ==
  \/ BufNew
  \/ BufGetInteger
  \/ BufSetInteger
  \/ BufNext

\* The typed-view cursor written through set-integer.
SpecBufInt == BufInit /\ [][BufIntNextAct]_vars

\* set-and-rewind of a sample value.
BufSetRewind ==
  /\ ~g.asserted
  /\ jsvArrayBufferIteratorHasElement(it)
  /\ IF NotAccessedAssert(it)
     THEN \E v \in BufVals(g.view.type.size) :
            \E w \in {jsvArrayBufferIteratorSetValueAndRewind(heap, it, v)} :
              /\ heap' = w.h
              /\ it' = w.it
              /\ g' = Wrote("value", v)
     ELSE /\ g' = [g EXCEPT !.asserted = TRUE]
          /\ UNCHANGED <<heap, it>>

\* set-byte, on one-byte elements.
BufSetByte ==
  /\ ~g.asserted
  /\ jsvArrayBufferIteratorHasElement(it)
  /\ SetByteAssert(it)
  /\ \E v \in {x \in BufVals(g.view.type.size) : x.n \in 0..255} :
       \E w \in {jsvArrayBufferIteratorSetByteValue(heap, it, v.n)} :
         /\ heap' = w.h
         /\ it' = w.it
         /\ g' = Wrote("byte", v)

BufPosNextAct ==
  \/ BufNextAct
  \/ BufSetInteger
  \/ BufSetRewind
  \/ BufSetByte

\* The typed-view cursor under all of its operations.
SpecBufPos == BufInit /\ [][BufPosNextAct]_vars

\* ------------------------------ typed view: the undefined state
\* The operations applied to a cursor that jsvArrayBufferIteratorNew
\* left undefined.  The early return of New leaves hasAccessedElement
\* and the inner cursor unset: they hold what the caller's struct held,
\* here the freed cursor before it.  g.rd records the operation and what
\* a read returned.
Undefined(a) == a.type = ARRAYBUFFERVIEW_UNDEFINED

UndefDid(op, v) == [g EXCEPT !.rd = [st |-> op, idx |-> it.index, val |-> v]]

UndefGetValue ==
  /\ Undefined(it)
  /\ \E w \in {jsvArrayBufferIteratorGetValue(heap, it)} :
       /\ heap' = w.h
       /\ it' = w.it
       /\ g' = UndefDid("getvalue", w.v)

UndefGetInteger ==
  /\ Undefined(it)
  /\ \E w \in {jsvArrayBufferIteratorGetIntegerValue(heap, it)} :
       /\ heap' = w.h
       /\ it' = w.it
       /\ g' = UndefDid("getinteger", IntVal(w.v))

UndefSetValue ==
  /\ Undefined(it)
  /\ \E v \in BufVals(g.view.type.size) :
       \E w \in {jsvArrayBufferIteratorSetValue(heap, it, v)} :
         /\ heap' = w.h
         /\ it' = w.it
         /\ g' = UndefDid("setvalue", IntVal(0))

UndefSetInteger ==
  /\ Undefined(it)
  /\ \E v \in {x \in BufVals(g.view.type.size) : ~x.big} :
       \E w \in {jsvArrayBufferIteratorSetIntegerValue(heap, it, v.n)} :
         /\ heap' = w.h
         /\ it' = w.it
         /\ g' = UndefDid("setinteger", IntVal(0))

UndefNext ==
  /\ Undefined(it)
  /\ it.index < g.view.length + MaxOps
  /\ \E w \in {jsvArrayBufferIteratorNext(heap, it)} :
       /\ heap' = w.h
       /\ it' = w.it
       /\ g' = UndefDid("next", IntVal(0))

UndefFree ==
  /\ Undefined(it)
  /\ \E w \in {jsvArrayBufferIteratorFree(heap, it)} :
       /\ heap' = w.h
       /\ it' = w.it
       /\ g' = UndefDid("free", IntVal(0))

UndefNextAct ==
  \/ BufNew
  \/ BufGetValue
  \/ UndefGetValue
  \/ UndefGetInteger
  \/ UndefSetValue
  \/ UndefSetInteger
  \/ UndefNext
  \/ UndefFree

\* The typed-view cursor created at or beyond the view's end.
SpecUndef == BufInit /\ [][UndefNextAct]_vars

\* --------------------------------------------- typed view: the claims
ViewBytes == ChainBytes(heap, 1)

\* The bytes of element k, as places in the backing string (from 1).
ElementPlaces(k) ==
  {g.view.byteOffset + k * g.view.type.size + b : b \in 1..g.view.type.size}

\* v reduced to the tag's width and sign-extended when the tag is signed,
\* as the JsVarInt that get-integer returns; the clamped tag saturates first.
C4_Reduced(type, v) ==
  LET bits == 8 * type.size
      c    == IF type.clamped THEN Min(Max(v, 0), 255) ELSE v
      m    == c % Pow2(Min(bits, 16))
  IN  IF bits = 32 THEN v
      ELSE IF type.signed /\ m >= Pow2(bits - 1) THEN m - Pow2(bits) ELSE m

\* C4 (as stated): a set-integer(v) step at element i leaves the bytes that
\* set-value(v) would leave, and a fresh cursor's get-integer at element i
\* then returns v reduced to the tag's width, whatever the byte order.
C4_Original ==
  [][(BufSetInteger /\ ~g'.asserted) =>
       LET v     == g'.written[it.index].v
           sv    == jsvArrayBufferIteratorSetValue(heap, it, v)
           fresh == jsvArrayBufferIteratorNew(heap', g.view, it.index, NoCursor)
           rd    == jsvArrayBufferIteratorGetIntegerValue(fresh.h, fresh.it)
       IN  /\ ChainBytes(heap', 1) = ChainBytes(sv.h, 1)
           /\ rd.v = C4_Reduced(g.view.type, v.n)]_vars

\* C5: a set-value step that writes back, at the element it was read from,
\* the value get-value or get-and-rewind returned there leaves every byte
\* of the backing string unchanged.
C5_ReadWriteBack ==
  [][(BufWriteBack /\ ~g'.asserted) => ChainBytes(heap', 1) = ChainBytes(heap, 1)]_vars

\* The value read from a multi-byte element has just been written back
\* there, on a view another element of which holds a sample value.
C5_Witness ==
  /\ g.rd.st = "writtenback"
  /\ g.view.type.size > 1
  /\ g.written[g.rd.idx].how = "none"
  /\ \E k \in DOMAIN g.written : g.written[k].how = "value"

\* The value the type tag defines for a written integer e: e mod 2^(8*width)
\* for unsigned tags, sign-extended from the top bit for signed tags,
\* min(max(e,0),255) for the clamped tag.  e.n is e modulo 2^32 as a
\* signed 32-bit number.
C6_TagValue(type, e) ==
  LET bits == 8 * type.size
      m    == e.n % Pow2(Min(bits, 16))
  IN  IF type.clamped THEN IntVal(Min(Max(e.n, 0), 255))
      ELSE IF bits = 32
      THEN (IF ~type.signed /\ e.n < 0 THEN BigVal(e.n) ELSE IntVal(e.n))
      ELSE IF type.signed /\ m >= Pow2(bits - 1) THEN IntVal(m - Pow2(bits))
      ELSE IntVal(m)

NumVar(n) == [kind |-> "num", n |-> n, big |-> FALSE, locks |-> 0]

NullVar == [kind |-> "null", locks |-> 0]

NameInt(key, packed, firstChild, nextSibling) ==
  [kind |-> "name", isInt |-> TRUE, ikey |-> key, skey |-> "", packed |-> packed,
   firstChild |-> firstChild, nextSibling |-> nextSibling, locks |-> 0]

NameStr(key, packed, firstChild, nextSibling) ==
  [kind |-> "name", isInt |-> FALSE, ikey |-> 0, skey |-> key, packed |-> packed,
   firstChild |-> firstChild, nextSibling |-> nextSibling, locks |-> 0]

ArrVar(length, firstChild) ==
  [kind |-> "arr", length |-> length, firstChild |-> firstChild, locks |-> 0]

ObjVar(firstChild) == [kind |-> "obj", firstChild |-> firstChild, locks |-> 0]

FnVar(ret) == [kind |-> "fn", ret |-> ret, firstChild |-> 0, locks |-> 0]

AbVar(type, length, byteOffset, backing) ==
  [kind |-> "ab", type |-> type, length |-> length, byteOffset |-> byteOffset,
   backing |-> backing, locks |-> 0]

Kind(h, r) ==
  IF r = 0 THEN "none" ELSE IF "data" \in DOMAIN h[r] THEN "str" ELSE h[r].kind

jsvIsNumeric(h, r) == Kind(h, r) = "num"

jsvIsString(h, r) == Kind(h, r) = "str"

jsvIsArray(h, r) == Kind(h, r) = "arr"

jsvIsObject(h, r) == Kind(h, r) = "obj"

jsvIsFunction(h, r) == Kind(h, r) = "fn"

jsvIsArrayBuffer(h, r) == Kind(h, r) = "ab"

jsvIsIterable(h, r) == Kind(h, r) \in {"arr", "obj", "fn", "str", "ab"}

\* An integer, or a name whose key is an integer.
jsvIsIntegerish(h, r) ==
  \/ Kind(h, r) = "num" /\ ~h[r].big
  \/ Kind(h, r) = "name" /\ h[r].isInt

jsvIsNameInt(h, r) == Kind(h, r) = "name" /\ h[r].packed

\* jsvGetInteger of a cell: a name gives its key.
jsvGetIntegerVar(h, r) ==
  IF Kind(h, r) = "num" THEN h[r].n
  ELSE IF Kind(h, r) = "name" /\ h[r].isInt THEN h[r].ikey
  ELSE 0

jsvGetFirstChildSigned(h, r) == h[r].firstChild

jsvGetArrayLength(h, r) == h[r].length

jsvGetIntegerAndUnLock(h, r) == [h |-> jsvUnLock(h, r), v |-> jsvGetIntegerVar(h, r)]

\* jsvNewFromInteger: a new locked cell.
jsvNewFromInteger(h, n) ==
  [h |-> Append(h, [NumVar(n) EXCEPT !.locks = 1]), r |-> Len(h) + 1]

\* jsvSkipName: the locked value of a name; a packed integer becomes a new
\* cell.
jsvSkipName(h, name) ==
  IF name = 0 THEN [h |-> h, r |-> 0]
  ELSE IF h[name].packed THEN jsvNewFromInteger(h, h[name].firstChild)
  ELSE [h |-> jsvLock(h, h[name].firstChild), r |-> h[name].firstChild]

\* ------------------------------------------------ object-children cursor
jsvObjectIteratorNew(h, obj) ==
  [h |-> jsvLock(h, h[obj].firstChild), it |-> [var |-> h[obj].firstChild]]

jsvObjectIteratorClone(h, i) == [h |-> jsvLock(h, i.var), it |-> i]

jsvObjectIteratorHasValue(i) == i.var # 0

jsvObjectIteratorGetValue(h, i) == jsvSkipName(h, i.var)

jsvObjectIteratorNext(h, i) ==
  IF i.var # 0
  THEN LET next == h[i.var].nextSibling IN
       [h |-> jsvLock(jsvUnLock(h, i.var), next), it |-> [var |-> next]]
  ELSE [h |-> h, it |-> i]

jsvObjectIteratorFree(h, i) == [h |-> jsvUnLock(h, i.var), it |-> i]

\* The children of a container from child c on, in order.
RECURSIVE Siblings(_, _)
Siblings(h, c) == IF c = 0 THEN <<>> ELSE <<c>> \o Siblings(h, h[c].nextSibling)

\* jsvRemoveChild: the child is unlinked from its parent's children and
\* keeps no sibling.
jsvRemoveChild(h, parent, child) ==
  LET kids == Siblings(h, h[parent].firstChild)
      p    == CHOOSE k \in 1..Len(kids) : kids[k] = child
      h1   == IF p = 1 THEN [h EXCEPT ![parent].firstChild = h[child].nextSibling]
              ELSE [h EXCEPT ![kids[p - 1]].nextSibling = h[child].nextSibling]
  IN  [h1 EXCEPT ![child].nextSibling = 0]

\* remove-and-next reading the next-sibling after the removal.
ObjectIteratorRemoveThenNext(h, i, parent) ==
  IF i.var # 0
  THEN LET h1   == jsvRemoveChild(h, parent, i.var)
           next == h1[i.var].nextSibling
       IN  [h |-> jsvLock(jsvUnLock(h1, i.var), next), it |-> [var |-> next]]
  ELSE [h |-> h, it |-> i]

jsvObjectIteratorRemoveAndGotoNext(h, i, parent) ==
  IF i.var # 0
  THEN LET next == h[i.var].nextSibling IN
       [h  |-> jsvLock(jsvUnLock(jsvRemoveChild(h, parent, i.var), i.var), next),
        it |-> [var |-> next]]
  ELSE [h |-> h, it |-> i]

\* ------------------------------------------------------- unified cursor
\* [type, index, var, obj, str, buf]: the kind tag, the FULL-ARRAY overlay's
\* logical index and array, and the wrapped cursor of the kind (the union's
\* other members keep their initial values).
NoUnified ==
  [type |-> "NONE", index |-> 0, var |-> 0, obj |-> [var |-> 0], str |-> NullIt,
   buf |-> NoCursor]

\* (int) of a char: sgn tells whether the build's char is signed.
CharToInt(ch, sgn) == IF sgn /\ ch >= 128 THEN ch - 256 ELSE ch

IteratorNewAssert(h, obj) ==
  Kind(h, obj) \in {"arr", "obj", "fn", "ab", "str"}

\* The unified cursor u with w.it in the member f of its union.
Wrapped(u, f, w) == [h |-> w.h, it |-> [u EXCEPT ![f] = w.it]]

jsvIteratorNew(h, obj, everyArrayElement) ==
  IF Kind(h, obj) \in {"arr", "obj", "fn"}
  THEN IF jsvIsArray(h, obj) /\ everyArrayElement
       THEN Wrapped([NoUnified EXCEPT !.type = "FULLARRAY", !.var = obj], "obj",
                    jsvObjectIteratorNew(jsvLock(h, obj), obj))
       ELSE Wrapped([NoUnified EXCEPT !.type = "OBJECT"], "obj", jsvObjectIteratorNew(h, obj))
  ELSE IF jsvIsArrayBuffer(h, obj)
  THEN Wrapped([NoUnified EXCEPT !.type = "ARRAYBUFFER"], "buf",
               jsvArrayBufferIteratorNew(h, h[obj], 0, NoCursor))
  ELSE IF jsvIsString(h, obj)
  THEN Wrapped([NoUnified EXCEPT !.type = "STRING"], "str", jsvStringIteratorNew(h, obj, 0))
  ELSE [h |-> h, it |-> NoUnified]

\* The FULL-ARRAY test: the child under the cursor is named by the index.
AtIndex(h, u) ==
  jsvIsIntegerish(h, u.obj.var) /\ jsvGetIntegerVar(h, u.obj.var) = u.index

\* jsvNewFromString of the one-byte buffer {ch, 0}.
NewCharString(h, ch) ==
  LET c == NewCell(IF ch = 0 THEN <<>> ELSE <<ch>>, MaxCap) IN
  [h |-> Append(h, [c EXCEPT !.locks = 1]), r |-> Len(h) + 1]

\* The value a typed-view read returned, as a new locked cell.
NewFromValue(h, v) ==
  [h |-> Append(h, [NumVar(v.n) EXCEPT !.big = v.big, !.locks = 1]), r |-> Len(h) + 1]

\* A cell reference w.r returned beside the cursor u.
WithRef(u, w) == [h |-> w.h, it |-> u, r |-> w.r]

\* The typed-view read w turned into a cell (null from the undefined
\* cursor).
BufferValue(u, w) ==
  IF u.buf.type = ARRAYBUFFERVIEW_UNDEFINED
  THEN [h |-> w.h, it |-> [u EXCEPT !.buf = w.it], r |-> 0]
  ELSE WithRef([u EXCEPT !.buf = w.it], NewFromValue(w.h, w.v))

\* jsvGetIntegerAndUnLock of the value w.r.
IntegerOfValue(u, w) ==
  [h |-> jsvUnLock(w.h, w.r), it |-> u, v |-> jsvGetIntegerVar(w.h, w.r)]

BufferInteger(u, w) == [h |-> w.h, it |-> [u EXCEPT !.buf = w.it], v |-> w.v]

jsvIteratorGetValue(h, u) ==
  IF u.type = "FULLARRAY"
  THEN IF AtIndex(h, u)
       THEN WithRef(u, jsvObjectIteratorGetValue(h, u.obj))
       ELSE [h |-> h, it |-> u, r |-> 0]
  ELSE IF u.type = "OBJECT"
  THEN WithRef(u, jsvObjectIteratorGetValue(h, u.obj))
  ELSE IF u.type = "STRING"
  THEN WithRef(u, NewCharString(h, jsvStringIteratorGetChar(h, u.str)))
  ELSE BufferValue(u, jsvArrayBufferIteratorGetValueAndRewind(h, u.buf))

jsvIteratorGetIntegerValue(h, u, sgn) ==
  IF u.type = "FULLARRAY"
  THEN IF jsvIsNameInt(h, u.obj.var) /\ jsvGetIntegerVar(h, u.obj.var) = u.index
       THEN [h |-> h, it |-> u, v |-> jsvGetFirstChildSigned(h, u.obj.var)]
       ELSE IF AtIndex(h, u)
       THEN IntegerOfValue(u, jsvObjectIteratorGetValue(h, u.obj))
       ELSE [h |-> h, it |-> u, v |-> 0]
  ELSE IF u.type = "OBJECT"
  THEN IF jsvIsNameInt(h, u.obj.var)
       THEN [h |-> h, it |-> u, v |-> jsvGetFirstChildSigned(h, u.obj.var)]
       ELSE IntegerOfValue(u, jsvObjectIteratorGetValue(h, u.obj))
  ELSE IF u.type = "STRING"
  THEN [h |-> h, it |-> u, v |-> CharToInt(jsvStringIteratorGetChar(h, u.str), sgn)]
  ELSE BufferInteger(u, jsvArrayBufferIteratorGetIntegerValue(h, u.buf))

jsvIteratorHasElement(h, u) ==
  IF u.type = "FULLARRAY" THEN u.index < jsvGetArrayLength(h, u.var)
  ELSE IF u.type = "OBJECT" THEN jsvObjectIteratorHasValue(u.obj)
  ELSE IF u.type = "STRING" THEN jsvStringIteratorHasChar(u.str)
  ELSE jsvArrayBufferIteratorHasElement(u.buf)

\* FULL-ARRAY next that steps the child cursor at every index.
IteratorNextEveryIndex(h, u) ==
  Wrapped([u EXCEPT !.index = @ + 1], "obj", jsvObjectIteratorNext(h, u.obj))

jsvIteratorNext(h, u) ==
  IF u.type = "FULLARRAY"
  THEN IF jsvIsIntegerish(h, u.obj.var) /\ jsvGetIntegerVar(h, u.obj.var) < u.index + 1
       THEN Wrapped([u EXCEPT !.index = @ + 1], "obj", jsvObjectIteratorNext(h, u.obj))
       ELSE [h |-> h, it |-> [u EXCEPT !.index = @ + 1]]
  ELSE IF u.type = "OBJECT" THEN Wrapped(u, "obj", jsvObjectIteratorNext(h, u.obj))
  ELSE IF u.type = "STRING" THEN Wrapped(u, "str", jsvStringIteratorNext(h, u.str))
  ELSE Wrapped(u, "buf", jsvArrayBufferIteratorNext(h, u.buf))

jsvIteratorFree(h, u) ==
  IF u.type = "FULLARRAY" THEN Wrapped(u, "obj", jsvObjectIteratorFree(jsvUnLock(h, u.var), u.obj))
  ELSE IF u.type = "OBJECT" THEN Wrapped(u, "obj", jsvObjectIteratorFree(h, u.obj))
  ELSE IF u.type = "STRING" THEN Wrapped(u, "str", jsvStringIteratorFree(h, u.str))
  ELSE Wrapped(u, "buf", jsvArrayBufferIteratorFree(h, u.buf))

\* jsvSetValueOfName: the name refers to the value cell.
jsvSetValueOfName(h, name, value) ==
  [h EXCEPT ![name].packed = FALSE, ![name].firstChild = value]

jsvObjectIteratorSetValue(h, i, value) ==
  IF i.var = 0 THEN [h |-> h, it |-> i]
  ELSE [h |-> jsvSetValueOfName(h, i.var, value), it |-> i]

\* The last child before the one of key index, from child c on (p: the
\* child before c, 0 when c is the first).
RECURSIVE PrevChild(_, _, _, _)
PrevChild(h, c, index, p) ==
  IF c = 0 \/ h[c].ikey >= index THEN p
  ELSE PrevChild(h, h[c].nextSibling, index, c)

\* jsvSetArrayItem within the array's length: the child named by index
\* takes the value; at a hole a new child is linked in key order.
jsvSetArrayItem(h, arr, index, value) ==
  LET p == PrevChild(h, h[arr].firstChild, index, 0)
      c == IF p = 0 THEN h[arr].firstChild ELSE h[p].nextSibling
  IN  IF c # 0 /\ h[c].ikey = index THEN jsvSetValueOfName(h, c, value)
      ELSE IF p = 0
      THEN [Append(h, NameInt(index, FALSE, value, c)) EXCEPT ![arr].firstChild = Len(h) + 1]
      ELSE [Append(h, NameInt(index, FALSE, value, c)) EXCEPT ![p].nextSibling = Len(h) + 1]

\* The number in the cell value, as the typed view takes it.
NumberOf(h, value) == [big |-> h[value].big, n |-> h[value].n]

\* value is a numeric cell.
jsvIteratorSetValue(h, u, value) ==
  IF u.type = "FULLARRAY"
  THEN LET w == IF AtIndex(h, u) THEN jsvObjectIteratorSetValue(h, u.obj, value)
                ELSE [h |-> h, it |-> u.obj]
       IN  [h |-> jsvSetArrayItem(w.h, u.var, u.index, value), it |-> u]
  ELSE IF u.type = "OBJECT" THEN Wrapped(u, "obj", jsvObjectIteratorSetValue(h, u.obj, value))
  ELSE IF u.type = "STRING"
  THEN Wrapped(u, "str", jsvStringIteratorSetChar(h, u.str, jsvGetIntegerVar(h, value) % 256))
  ELSE Wrapped(u, "buf", jsvArrayBufferIteratorSetValueAndRewind(h, u.buf, NumberOf(h, value)))

jsvIteratorClone(h, u) ==
  IF u.type = "FULLARRAY"
  THEN Wrapped(u, "obj", jsvObjectIteratorClone(jsvLock(h, u.var), u.obj))
  ELSE IF u.type = "OBJECT" THEN Wrapped(u, "obj", jsvObjectIteratorClone(h, u.obj))
  ELSE IF u.type = "STRING" THEN Wrapped(u, "str", jsvStringIteratorClone(h, u.str))
  ELSE Wrapped(u, "buf", jsvArrayBufferIteratorClone(h, u.buf))

\* ------------------------------------------------- heaps of values
AddVar(h, c) == [h |-> Append(h, c), r |-> Len(h) + 1]

AddString(h, s) == [h |-> h \o MkChain(s, MaxCap, MaxCap, Len(h)), r |-> Len(h) + 1]

\* A container cell followed by its name cells, linked in order.
AddContainer(h, head, names) ==
  LET base == Len(h) + 1
      n    == Len(names)
  IN  [h |-> h \o <<[head EXCEPT !.firstChild = IF n = 0 THEN 0 ELSE base + 1]>>
               \o [k \in 1..n |->
                     [names[k] EXCEPT !.nextSibling = IF k < n THEN base + k + 1 ELSE 0]],
       r |-> base]

\* ------------------------------------- unified cursor: the machine
\* heap holds a container (g.x), its cells and a number cell (g.val); it
\* is the unified cursor on the container, g.clone its clone while g.cl is
\* "live".  g: sel the container chosen, op the last operation, freed,
\* asserted (an assert of the typed view failed).
UniChoices == {"str", "u8", "i16", "empty", "arr", "obj"}

AddUni(sel) ==
  IF sel = "str" THEN [h |-> MkChain(<<97, 98, 99>>, 2, 2, 0), r |-> 1]
  ELSE IF sel = "u8"
  THEN AddVar(MkChain(<<1, 2, 250, 4>>, 2, 2, 0), AbVar(IntType(1, FALSE, FALSE, FALSE), 2, 1, 1))
  ELSE IF sel = "i16"
  THEN AddVar(MkChain(<<1, 254, 255, 3, 4, 9>>, 4, 4, 0),
              AbVar(IntType(2, TRUE, FALSE, FALSE), 2, 1, 1))
  ELSE IF sel = "empty"
  THEN AddVar(MkChain(<<1, 2>>, 2, 2, 0), AbVar(IntType(2, TRUE, FALSE, FALSE), 0, 1, 1))
  ELSE IF sel = "arr"
  THEN AddContainer(<<NumVar(30)>>, ArrVar(3, 0),
                    <<NameInt(0, TRUE, 10, 0), NameInt(2, FALSE, 1, 0)>>)
  ELSE AddContainer(<<NumVar(30)>>, ObjVar(0),
                    <<NameStr("a", TRUE, 7, 0), NameStr("b", FALSE, 1, 0)>>)

\* jsvArrayBufferIteratorNew returns early on the undefined cursor: its
\* inner string cursor holds what the caller's memory held, nothing
\* (stale = 0) or a cursor left there on the cell stale.
Unset(h, u, stale) ==
  IF u.type = "ARRAYBUFFER" /\ Undefined(u.buf) /\ stale # 0
  THEN [u EXCEPT !.buf.it = [NullIt EXCEPT !.var = stale, !.ptr = stale,
                                            !.charsInVar = h[stale].used]]
  ELSE u

\* The caller's jsvUnLock of a value it was returned: a cell made for the
\* value is freed by it.
Release(h0, w) ==
  IF w.r > Len(h0) THEN SubSeq(w.h, 1, Len(h0)) ELSE jsvUnLock(w.h, w.r)

UniAssert(u) == u.type = "ARRAYBUFFER" => NotAccessedAssert(u.buf)

UniInit ==
  \E sel \in UniChoices, every \in BOOLEAN, stale \in {0, 1} :
    /\ sel # "arr" => every
    /\ sel # "empty" => stale = 0
    /\ \E d \in {AddUni(sel)} :
         \E v \in {AddVar(d.h, NumVar(65))} :
           \E w \in {jsvIteratorNew(v.h, d.r, every)} :
             /\ heap = w.h
             /\ it = Unset(w.h, w.it, stale)
             /\ g = [sel |-> sel, x |-> d.r, val |-> v.r, op |-> "new",
                     clone |-> NoUnified, cl |-> "none", freed |-> FALSE,
                     asserted |-> FALSE]

UniGetValue ==
  /\ ~g.asserted /\ ~g.freed
  /\ jsvIteratorHasElement(heap, it)
  /\ IF UniAssert(it)
     THEN \E w \in {jsvIteratorGetValue(heap, it)} :
            /\ heap' = Release(heap, w)
            /\ it' = w.it
            /\ g' = [g EXCEPT !.op = "getvalue"]
     ELSE /\ g' = [g EXCEPT !.op = "getvalue", !.asserted = TRUE]
          /\ UNCHANGED <<heap, it>>

UniGetInteger ==
  /\ ~g.asserted /\ ~g.freed
  /\ jsvIteratorHasElement(heap, it)
  /\ IF UniAssert(it)
     THEN \E w \in {jsvIteratorGetIntegerValue(heap, it, FALSE)} :
            /\ heap' = w.h
            /\ it' = w.it
            /\ g' = [g EXCEPT !.op = "getinteger"]
     ELSE /\ g' = [g EXCEPT !.op = "getinteger", !.asserted = TRUE]
          /\ UNCHANGED <<heap, it>>

UniSetValue ==
  /\ ~g.asserted /\ ~g.freed
  /\ jsvIteratorHasElement(heap, it)
  /\ IF UniAssert(it)
     THEN \E w \in {jsvIteratorSetValue(heap, it, g.val)} :
            /\ heap' = w.h
            /\ it' = w.it
            /\ g' = [g EXCEPT !.op = "setvalue"]
     ELSE /\ g' = [g EXCEPT !.op = "setvalue", !.asserted = TRUE]
          /\ UNCHANGED <<heap, it>>

UniNext ==
  /\ ~g.asserted /\ ~g.freed
  /\ jsvIteratorHasElement(heap, it)
  /\ \E w \in {jsvIteratorNext(heap, it)} :
       /\ heap' = w.h
       /\ it' = w.it
       /\ g' = [g EXCEPT !.op = "next"]

UniClone ==
  /\ ~g.asserted /\ ~g.freed
  /\ g.cl = "none"
  /\ \E w \in {jsvIteratorClone(heap, it)} :
       /\ heap' = w.h
       /\ g' = [g EXCEPT !.op = "clone", !.clone = w.it, !.cl = "live"]
  /\ UNCHANGED it

\* next on the clone.
UniCloneNext ==
  /\ ~g.asserted
  /\ g.cl = "live"
  /\ jsvIteratorHasElement(heap, g.clone)
  /\ \E w \in {jsvIteratorNext(heap, g.clone)} :
       /\ heap' = w.h
       /\ g' = [g EXCEPT !.op = "clonenext", !.clone = w.it]
  /\ UNCHANGED it

\* free of the clone.
UniCloneFree ==
  /\ ~g.asserted
  /\ g.cl = "live"
  /\ \E w \in {jsvIteratorFree(heap, g.clone)} :
       /\ heap' = w.h
       /\ g' = [g EXCEPT !.op = "clonefree", !.clone = w.it, !.cl = "freed"]
  /\ UNCHANGED it

UniFree ==
  /\ ~g.asserted /\ ~g.freed
  /\ \E w \in {jsvIteratorFree(heap, it)} :
       /\ heap' = w.h
       /\ it' = w.it
       /\ g' = [g EXCEPT !.op = "free", !.freed = TRUE]

UniNextAct ==
  \/ UniGetValue
  \/ UniGetInteger
  \/ UniSetValue
  \/ UniNext
  \/ UniClone
  \/ UniCloneNext
  \/ UniCloneFree
  \/ UniFree

SpecUni == UniInit /\ [][UniNextAct]_vars

\* The unified cursor over sparse arrays, every index enumerated: the
\* arrays of FullLen indices, index k holding 10 * (k + 1) where it is
\* not a hole.
FullLen == 3

FullNames(present) ==
  LET keys == SelectSeq([k \in 1..FullLen |-> k - 1], LAMBDA k : k \in present)
  IN  [j \in 1..Len(keys) |-> NameInt(keys[j], TRUE, 10 * (keys[j] + 1), 0)]

FullInit ==
  \E present \in SUBSET (0..(FullLen - 1)) :
    \E d \in {AddContainer(<<>>, ArrVar(FullLen, 0), FullNames(present))} :
      \E v \in {AddVar(d.h, NumVar(65))} :
        \E w \in {jsvIteratorNew(v.h, d.r, TRUE)} :
          /\ heap = w.h
          /\ it = w.it
          /\ g = [sel |-> "arr", x |-> d.r, val |-> v.r, op |-> "new",
                  clone |-> NoUnified, cl |-> "none", freed |-> FALSE,
                  asserted |-> FALSE]

SpecFull == FullInit /\ [][UniNextAct]_vars

\* ------------------------------- object-children cursor: the machine
\* heap holds a container (cell 1) and its children c1..cn (cells 2..n+1),
\* it the object-children cursor on it.  g: n, visited the cells the
\* cursor was on when next or remove-and-next was applied, kept those
\* passed with next.
MaxKids == 5

ObjInit ==
  \E n \in 0..MaxKids, array \in BOOLEAN :
    \E d \in {AddContainer(<<>>, IF array THEN ArrVar(n, 0) ELSE ObjVar(0),
                            [k \in 1..n |-> NameInt(k - 1, TRUE, 10 * k, 0)])} :
      \E w \in {jsvObjectIteratorNew(d.h, d.r)} :
        /\ heap = w.h
        /\ it = w.it
        /\ g = [n |-> n, visited |-> <<>>, kept |-> <<>>]

ObjNext ==
  /\ jsvObjectIteratorHasValue(it)
  /\ \E w \in {jsvObjectIteratorNext(heap, it)} :
       /\ heap' = w.h
       /\ it' = w.it
       /\ g' = [g EXCEPT !.visited = Append(@, it.var), !.kept = Append(@, it.var)]

ObjRemoveAndGotoNext ==
  /\ jsvObjectIteratorHasValue(it)
  /\ \E w \in {jsvObjectIteratorRemoveAndGotoNext(heap, it, 1)} :
       /\ heap' = w.h
       /\ it' = w.it
       /\ g' = [g EXCEPT !.visited = Append(@, it.var)]

ObjNextAct ==
  \/ ObjNext
  \/ ObjRemoveAndGotoNext

SpecObj == ObjInit /\ [][ObjNextAct]_vars

\* ------------------------------------------- FULL-ARRAY: the machine
\* heap holds an array (cell 1) and its children, it the unified cursor.
\* A child choice per index: "hole", or a child with the value 10 or 30,
\* held in the name itself ("p10", "p30") or in a number cell ("r30").
ChildChoices == {"hole", "p10", "p30", "r30"}

ChildValue(c) == IF c = "p10" THEN 10 ELSE 30

\* The cells of the children of indices i..n-1, the first at reference ref:
\* a name cell, followed by its number cell unless the value is packed.
RECURSIVE ChildCells(_, _, _, _)
ChildCells(kids, i, n, ref) ==
  IF i >= n THEN <<>>
  ELSE IF kids[i] = "hole" THEN ChildCells(kids, i + 1, n, ref)
  ELSE LET width == IF kids[i] = "r30" THEN 2 ELSE 1
           rest  == ChildCells(kids, i + 1, n, ref + width)
           next  == IF rest = <<>> THEN 0 ELSE ref + width
       IN  IF kids[i] = "r30"
           THEN <<NameInt(i, FALSE, ref + 1, next), NumVar(30)>> \o rest
           ELSE <<NameInt(i, TRUE, ChildValue(kids[i]), next)>> \o rest

MkArray(kids, n) ==
  LET cells == ChildCells(kids, 0, n, 2) IN
  <<ArrVar(n, IF cells = <<>> THEN 0 ELSE 2)>> \o cells

\* g: length and kids the array as chosen, mode the read used ("int":
\* get-integer, "val": get-value), out the results [idx, null, n] in the
\* order read, got whether the current index has been read, sgn the
\* build's char signedness, freed.
ArrInit ==
  \E n \in 0..MaxArrLen, mode \in {"int", "val"} :
    \E kids \in [0..(n - 1) -> ChildChoices] :
      \E w \in {jsvIteratorNew(MkArray(kids, n), 1, TRUE)} :
        /\ heap = w.h
        /\ it = w.it
        /\ g = [length |-> n, kids |-> kids, mode |-> mode, out |-> <<>>,
                got |-> FALSE, sgn |-> FALSE, freed |-> FALSE]

ArrGetInteger ==
  /\ ~g.freed /\ ~g.got /\ g.mode = "int"
  /\ jsvIteratorHasElement(heap, it)
  /\ \E w \in {jsvIteratorGetIntegerValue(heap, it, g.sgn)} :
       /\ heap' = w.h
       /\ it' = w.it
       /\ g' = [g EXCEPT !.got = TRUE,
                         !.out = Append(@, [idx |-> it.index, null |-> FALSE, n |-> w.v])]

\* get-value, the caller reading the number returned and unlocking it.
ArrGetValue ==
  /\ ~g.freed /\ ~g.got /\ g.mode = "val"
  /\ jsvIteratorHasElement(heap, it)
  /\ \E w \in {jsvIteratorGetValue(heap, it)} :
       /\ heap' = jsvUnLock(w.h, w.r)
       /\ it' = w.it
       /\ g' = [g EXCEPT !.got = TRUE,
                         !.out = Append(@, [idx |-> it.index, null |-> w.r = 0,
                                            n |-> jsvGetIntegerVar(w.h, w.r)])]

ArrNext ==
  /\ ~g.freed /\ g.got
  /\ jsvIteratorHasElement(heap, it)
  /\ \E w \in {jsvIteratorNext(heap, it)} :
       /\ heap' = w.h
       /\ it' = w.it
       /\ g' = [g EXCEPT !.got = FALSE]

ArrFree ==
  /\ ~g.freed
  /\ ~jsvIteratorHasElement(heap, it)
  /\ \E w \in {jsvIteratorFree(heap, it)} :
       /\ heap' = w.h
       /\ it' = w.it
       /\ g' = [g EXCEPT !.freed = TRUE]

ArrNextAct ==
  \/ ArrGetInteger
  \/ ArrGetValue
  \/ ArrNext
  \/ ArrFree

SpecArr == ArrInit /\ [][ArrNextAct]_vars

\* --------------------------------------------- FULL-ARRAY: the claims
\* What the loop returns at index i: the child's value, or the hole result.
C7_Expected(i) ==
  IF g.kids[i] = "hole" THEN [idx |-> i, null |-> g.mode = "val", n |-> 0]
  ELSE [idx |-> i, null |-> FALSE, n |-> ChildValue(g.kids[i])]

\* C7: under FULL-ARRAY the loop has-element / get-integer (or get-value) /
\* next visits the indices 0, 1, ..., length-1 in order and nothing else,
\* and returns at index i the value of the child with key i, or the hole
\* result (0 for get-integer, null for get-value) when there is none.
C7_FullArrayVisit ==
  /\ Len(g.out) <= g.length
  /\ \A j \in 1..Len(g.out) : g.out[j] = C7_Expected(j - 1)
  /\ it.index = Len(g.out) - (IF g.got THEN 1 ELSE 0)
  /\ ~jsvIteratorHasElement(heap, it) => Len(g.out) = g.length

\* Length 5 with children {0:10, 3:30}: the loop has ended with the
\* integers 10, 0, 0, 30, 0.
C7_Witness ==
  /\ g.length = 5
  /\ g.mode = "int"
  /\ {i \in 0..4 : g.kids[i] # "hole"} = {0, 3}
  /\ [j \in 1..Len(g.out) |-> g.out[j].n] = <<10, 0, 0, 30, 0>>
  /\ ~jsvIteratorHasElement(heap, it)

\* ====================================================== callback walker
\* jsvObjectGetChild(obj, name, 0): the locked value of the child named
\* name, 0 when there is none.
RECURSIVE FindChild(_, _, _)
FindChild(h, name, key) ==
  IF name = 0 THEN 0
  ELSE IF ~h[name].isInt /\ h[name].skey = key THEN name
  ELSE FindChild(h, h[name].nextSibling, key)

jsvObjectGetChild(h, obj, key) == jsvSkipName(h, FindChild(h, h[obj].firstChild, key))

\* jspExecuteFunction(f, 0, 0, NULL): the locked value the function returns.
jspExecuteFunction(h, f) == [h |-> jsvLock(h, h[f].ret), r |-> h[f].ret]

jsvUnLock2(h, a, b) == jsvUnLock(jsvUnLock(h, a), b)

\* The walker's trace: [e, n, s] with e "emit" (n the integer handed to
\* the sink), "get" (s the property looked up), "call" (n the argument
\* count), "rep" (a walk of data begins, n repetitions left after it) and
\* "typeerror".
Ev(e, n, s) == [e |-> e, n |-> n, s |-> s]

\* A sink's data: count for the counting sink; mem (the caller's memory
\* from buf on), idx and length for the to-bytes sink.
NoSinkData == [count |-> 0, mem |-> <<>>, idx |-> 0, length |-> 0]

jsvIterateCallbackCountCb(n, d) == [d EXCEPT !.count = @ + 1]

\* to-bytes sink that stores whatever idx is.
ToBytesCbUnchecked(n, d) ==
  [d EXCEPT !.mem = [@ EXCEPT ![d.idx + 1] = n % 256], !.idx = @ + 1]

jsvIterateCallbackToBytesCb(n, d) ==
  IF d.idx < d.length
  THEN [d EXCEPT !.mem = [@ EXCEPT ![d.idx + 1] = n % 256], !.idx = @ + 1]
  ELSE [d EXCEPT !.idx = @ + 1]

\* callback(n, callbackData)
Callback(cb, n, d) ==
  IF cb = "count" THEN jsvIterateCallbackCountCb(n, d)
  ELSE jsvIterateCallbackToBytesCb(n, d)

\* The repetition loop that goes on after a failed walk.
RepeatAll(ok, n) == n > 0

\* while (ok && n-- > 0)
RepeatContinues(ok, n) == ok /\ n > 0

\* The result of a {callback} whose function returned nothing, had the
\* walker gone on to the {data, count} rule.
CallbackNothingFails(h, d, ev) ==
  [h |-> h, ok |-> FALSE, d |-> d, ev |-> ev \o <<Ev("typeerror", 0, "")>>]

\* return true
CallbackNothing(h, d, ev) == [h |-> h, ok |-> TRUE, d |-> d, ev |-> ev]

\* while (jsvStringIteratorHasChar(&it) && ok), then the free: ok stays
\* true in this loop.  w is [h, it], the heap and the string cursor.
RECURSIVE IterateString(_, _, _, _, _)
IterateString(w, cb, d, sgn, ev) ==
  IF ~jsvStringIteratorHasChar(w.it)
  THEN [h |-> jsvStringIteratorFree(w.h, w.it).h, ok |-> TRUE, d |-> d, ev |-> ev]
  ELSE IterateString(jsvStringIteratorNext(w.h, w.it), cb,
                     Callback(cb, CharToInt(jsvStringIteratorGetChar(w.h, w.it), sgn), d),
                     sgn,
                     Append(ev, Ev("emit",
                                   CharToInt(jsvStringIteratorGetChar(w.h, w.it), sgn), "")))

\* while (len--), then the free: the one-byte unsigned path, a the view's
\* cursor and w = [h, it] its string cursor sit.
RECURSIVE IterateBytes(_, _, _, _, _, _)
IterateBytes(a, w, len, cb, d, ev) ==
  IF len = 0
  THEN [h |-> jsvArrayBufferIteratorFree(w.h, [a EXCEPT !.it = w.it]).h, ok |-> TRUE,
        d |-> d, ev |-> ev]
  ELSE IterateBytes(a, jsvStringIteratorNextInline(w.h, w.it), len - 1, cb,
                    Callback(cb, jsvStringIteratorGetChar(w.h, w.it), d),
                    Append(ev, Ev("emit", jsvStringIteratorGetChar(w.h, w.it), "")))

\* The body of the general loop, r the read: the sink is called, the
\* cursor steps.
RECURSIVE IterateBuffer(_, _, _, _)
BufferStep(r, cb, d, ev) ==
  IterateBuffer(jsvArrayBufferIteratorNext(r.h, r.it), cb, Callback(cb, r.v, d),
                Append(ev, Ev("emit", r.v, "")))

\* while (jsvArrayBufferIteratorHasElement(&it)), then the free.
IterateBuffer(w, cb, d, ev) ==
  IF ~jsvArrayBufferIteratorHasElement(w.it)
  THEN [h |-> jsvArrayBufferIteratorFree(w.h, w.it).h, ok |-> TRUE, d |-> d, ev |-> ev]
  ELSE BufferStep(jsvArrayBufferIteratorGetIntegerValue(w.h, w.it), cb, d, ev)

\* The typed-view branch reading bytes through the string cursor whatever
\* the tag.
IterateArrayBufferBytes(a, len, cb, d) ==
  IterateBytes(a.it, [h |-> a.h, it |-> a.it.it], len, cb, d, <<>>)

\* The branch for a typed view: a is [h, it] with the cursor created.
IterateArrayBuffer(a, len, cb, d) ==
  IF a.it.type.size = 1 /\ ~a.it.type.signed
  THEN IterateBytes(a.it, [h |-> a.h, it |-> a.it.it], len, cb, d, <<>>)
  ELSE IterateBuffer(a, cb, d, <<>>)

\* The walker recurses into itself from three places: on the value a
\* callback returned, on data in the repetition loop, on each element of an
\* iterable.  The recursion is run on an explicit stack of frames
\*   [k, n, a, b, u, busy]
\* k "cb":    a the callback's result, to unlock on return
\* k "rep":   n the repetitions left, a countVar, b dataVar
\* k "elems": u the unified cursor, a the element being walked (busy)
\* A machine state m is [h, d, ev, stack, mode, cur, ok, cb, sgn]: mode
\* "call" enters jsvIterateCallback on the cell cur, mode "ret" returns ok
\* to the frame on top of the stack.
Frame(k, n, a, b, u, busy) == [k |-> k, n |-> n, a |-> a, b |-> b, u |-> u, busy |-> busy]

Return(m, h, ok, ev) == [m EXCEPT !.h = h, !.mode = "ret", !.ok = ok, !.ev = @ \o ev]

\* A frame is pushed and its loop test comes next.
Push(m, h, f, ev) ==
  [m EXCEPT !.h = h, !.mode = "ret", !.ok = TRUE, !.ev = @ \o ev, !.stack = <<f>> \o @]

\* The invocation returns with the outcome r = [h, ok, d, ev].
Returned(m, r) ==
  [m EXCEPT !.h = r.h, !.mode = "ret", !.ok = r.ok, !.d = r.d, !.ev = @ \o r.ev]

\* The {callback} branch, callbackVar a function and result what it gave:
\* if (result) ... return true
EnterCallback(m, callbackVar, result) ==
  IF result.r # 0
  THEN [m EXCEPT !.h = jsvUnLock(result.h, callbackVar.r), !.mode = "call",
                 !.cur = result.r,
                 !.ev = @ \o <<Ev("get", 0, "callback"), Ev("call", 0, "")>>,
                 !.stack = <<Frame("cb", 0, result.r, 0, NoUnified, FALSE)>> \o @]
  ELSE Returned(m, CallbackNothing(jsvUnLock(result.h, callbackVar.r), m.d,
                                   <<Ev("get", 0, "callback"), Ev("call", 0, "")>>))

\* The {data, count} branch with both lookups made.
DataCount(m, countVar, dataVar, ev) ==
  IF countVar.r # 0 /\ dataVar.r # 0 /\ jsvIsNumeric(dataVar.h, countVar.r)
  THEN Push(m, dataVar.h,
            Frame("rep", jsvGetIntegerVar(dataVar.h, countVar.r), countVar.r,
                  dataVar.r, NoUnified, FALSE),
            ev)
  ELSE Return(m, jsvUnLock2(dataVar.h, countVar.r, dataVar.r), FALSE,
              Append(ev, Ev("typeerror", 0, "")))

LookupData(m, countVar) ==
  DataCount(m, countVar, jsvObjectGetChild(countVar.h, m.cur, "data"),
            <<Ev("get", 0, "callback"), Ev("get", 0, "count"), Ev("get", 0, "data")>>)

\* The object branch, callbackVar the result of the lookup of "callback".
EnterObject(m, callbackVar) ==
  IF jsvIsFunction(callbackVar.h, callbackVar.r)
  THEN EnterCallback(m, callbackVar, jspExecuteFunction(callbackVar.h, callbackVar.r))
  ELSE LookupData(m, jsvObjectGetChild(jsvUnLock(callbackVar.h, callbackVar.r),
                                       m.cur, "count"))

ElementsFrom(m, u) == Push(m, u.h, Frame("elems", 0, 0, 0, u.it, FALSE), <<>>)

\* jsvIterateCallback is entered on m.cur.
Enter(m) ==
  IF jsvIsNumeric(m.h, m.cur)
  THEN [Return(m, m.h, TRUE, <<Ev("emit", jsvGetIntegerVar(m.h, m.cur), "")>>)
          EXCEPT !.d = Callback(m.cb, jsvGetIntegerVar(m.h, m.cur), @)]
  ELSE IF jsvIsObject(m.h, m.cur)
  THEN EnterObject(m, jsvObjectGetChild(m.h, m.cur, "callback"))
  ELSE IF jsvIsString(m.h, m.cur)
  THEN Returned(m, IterateString(jsvStringIteratorNew(m.h, m.cur, 0), m.cb, m.d, m.sgn,
                                 <<>>))
  ELSE IF jsvIsArrayBuffer(m.h, m.cur)
  THEN Returned(m, IterateArrayBuffer(
                     jsvArrayBufferIteratorNew(m.h, m.h[m.cur], 0, NoCursor),
                     m.h[m.cur].length, m.cb, m.d))
  ELSE IF jsvIsIterable(m.h, m.cur)
  THEN ElementsFrom(m, jsvIteratorNew(m.h, m.cur, TRUE))
  ELSE Return(m, m.h, FALSE, <<Ev("typeerror", 0, "")>>)

\* The element el is walked next.
WalkElement(m, el) ==
  [m EXCEPT !.h = el.h, !.mode = "call", !.cur = el.r,
            !.stack = <<[Head(@) EXCEPT !.u = el.it, !.a = el.r, !.busy = TRUE]>>
                        \o Tail(@)]

\* The element loop that goes on after a failed element.
ElementsTestAll(m, x) ==
  IF jsvIteratorHasElement(x.h, x.it)
  THEN WalkElement(m, jsvIteratorGetValue(x.h, x.it))
  ELSE [m EXCEPT !.h = jsvIteratorFree(x.h, x.it).h, !.stack = Tail(@)]

\* while (jsvIteratorHasElement(&it) && ok), x the cursor at the test.
ElementsTest(m, x) ==
  IF jsvIteratorHasElement(x.h, x.it) /\ m.ok
  THEN WalkElement(m, jsvIteratorGetValue(x.h, x.it))
  ELSE [m EXCEPT !.h = jsvIteratorFree(x.h, x.it).h, !.stack = Tail(@)]

\* A walk returned m.ok to the frame on top of the stack.
Resume(m) ==
  IF Head(m.stack).k = "cb"
  THEN [m EXCEPT !.h = jsvUnLock(m.h, Head(m.stack).a), !.stack = Tail(@)]
  ELSE IF Head(m.stack).k = "rep"
  THEN IF RepeatContinues(m.ok, Head(m.stack).n)
       THEN [m EXCEPT !.mode = "call", !.cur = Head(m.stack).b,
                      !.ev = Append(@, Ev("rep", Head(m.stack).n - 1, "")),
                      !.stack = <<[Head(@) EXCEPT !.n = @ - 1]>> \o Tail(@)]
       ELSE [m EXCEPT !.h = jsvUnLock2(m.h, Head(m.stack).a, Head(m.stack).b),
                      !.stack = Tail(@)]
  ELSE IF Head(m.stack).busy
  THEN ElementsTest(m, jsvIteratorNext(jsvUnLock(m.h, Head(m.stack).a), Head(m.stack).u))
  ELSE ElementsTest(m, [h |-> m.h, it |-> Head(m.stack).u])

RECURSIVE RunWalk(_)
RunWalk(m) ==
  IF m.mode = "ret" /\ m.stack = <<>> THEN m
  ELSE IF m.mode = "call" THEN RunWalk(Enter(m))
  ELSE RunWalk(Resume(m))

\* The outcome is the final machine state: h, ok, d and ev.
jsvIterateCallback(h, data, cb, d, sgn) ==
  RunWalk([h |-> h, d |-> d, ev |-> <<>>, stack |-> <<>>, mode |-> "call",
           cur |-> data, ok |-> TRUE, cb |-> cb, sgn |-> sgn])

CountOutcome(w) == [h |-> w.h, v |-> w.d.count, ok |-> w.ok, ev |-> w.ev]

\* count: how many times the sink was called.  ok and ev are the walk's
\* outcome and trace, which the C function drops.
jsvIterateCallbackCount(h, var, sgn) ==
  CountOutcome(jsvIterateCallback(h, var, "count", NoSinkData, sgn))

ToBytesOutcome(w) == [h |-> w.h, v |-> w.d.idx, mem |-> w.d.mem, ok |-> w.ok, ev |-> w.ev]

\* to-bytes: mem is the caller's memory from `data` on, dataSize the size
\* of the buffer at its start.
jsvIterateCallbackToBytes(h, var, mem, dataSize, sgn) ==
  ToBytesOutcome(jsvIterateCallback(h, var, "tobytes",
                                    [NoSinkData EXCEPT !.mem = mem, !.length = dataSize],
                                    sgn))

\* -------------------------------------------------- walker: the machine
\* The array [1, 2, 3].
Add123(h) ==
  AddContainer(h, ArrVar(3, 0), [k \in 1..3 |-> NameInt(k - 1, TRUE, k, 0)])

\* The 10-byte string walked by the claims' example; one byte is above 127.
TenBytes == [k \in 1..10 |-> IF k = 3 THEN 200 ELSE 96 + k]

\* The values walked as data.
DataChoices ==
  {"num7", "num300", "numNeg", "str10", "str0", "arr123", "arrHole", "arrMixed",
   "arrNested",
   "null", "u8", "i16", "objDC", "objEmpty"}

AddData(h, sel) ==
  IF sel = "num7" THEN AddVar(h, NumVar(7))
  ELSE IF sel = "num300" THEN AddVar(h, NumVar(300))
  ELSE IF sel = "numNeg" THEN AddVar(h, NumVar(-2))
  ELSE IF sel = "str10" THEN AddString(h, TenBytes)
  ELSE IF sel = "str0" THEN AddString(h, <<>>)
  ELSE IF sel = "arr123" THEN Add123(h)
  ELSE IF sel = "arrHole"
  THEN AddContainer(h, ArrVar(3, 0), <<NameInt(0, TRUE, 1, 0), NameInt(2, TRUE, 3, 0)>>)
  ELSE IF sel = "arrMixed"
  THEN LET s == AddString(h, <<104, 105>>)
           a == Add123(s.h)
       IN  AddContainer(a.h, ArrVar(3, 0),
                        <<NameInt(0, TRUE, 7, 0), NameInt(1, FALSE, s.r, 0),
                          NameInt(2, FALSE, a.r, 0)>>)
  ELSE IF sel = "arrNested"
  THEN LET z == AddVar(h, NullVar)
           a == AddContainer(z.h, ArrVar(3, 0),
                             <<NameInt(0, TRUE, 2, 0), NameInt(1, FALSE, z.r, 0),
                               NameInt(2, TRUE, 4, 0)>>)
       IN  AddContainer(a.h, ArrVar(3, 0),
                        <<NameInt(0, TRUE, 1, 0), NameInt(1, FALSE, a.r, 0),
                          NameInt(2, TRUE, 3, 0)>>)
  ELSE IF sel = "null" THEN AddVar(h, NullVar)
  ELSE IF sel = "u8"
  THEN LET s == AddString(h, <<1, 2, 250, 4, 5>>)
       IN  AddVar(s.h, AbVar(IntType(1, FALSE, FALSE, FALSE), 3, 1, s.r))
  ELSE IF sel = "i16"
  THEN LET s == AddString(h, <<1, 254, 255, 3, 4>>)
       IN  AddVar(s.h, AbVar(IntType(2, TRUE, FALSE, FALSE), 2, 1, s.r))
  ELSE IF sel = "objDC"
  THEN AddContainer(h, ObjVar(0),
                    <<NameStr("data", TRUE, 7, 0), NameStr("count", TRUE, 2, 0)>>)
  ELSE AddContainer(h, ObjVar(0), <<>>)

\* How the data is wrapped into the value walked.
WrapChoices ==
  {"bare", "dc", "dcStr", "dOnly", "cOnly", "cb", "cbDC", "cbNone", "cbNoneDC",
   "cbNotFn", "cbNotFnOnly", "arr2"}

WrapsWithCount == {"dc", "cOnly", "cbDC", "cbNoneDC", "cbNotFn"}

\* The wrapper's properties: x the string "x", fv / fn the functions
\* returning the data / nothing.
WrapNames(sel, dr, c, x, fv, fn) ==
  IF sel = "dc" THEN <<NameStr("data", FALSE, dr, 0), NameStr("count", TRUE, c, 0)>>
  ELSE IF sel = "dcStr"
  THEN <<NameStr("data", FALSE, dr, 0), NameStr("count", FALSE, x, 0)>>
  ELSE IF sel = "dOnly" THEN <<NameStr("data", FALSE, dr, 0)>>
  ELSE IF sel = "cOnly" THEN <<NameStr("count", TRUE, c, 0)>>
  ELSE IF sel = "cb" THEN <<NameStr("callback", FALSE, fv, 0)>>
  ELSE IF sel = "cbDC"
  THEN <<NameStr("data", TRUE, 9, 0), NameStr("count", TRUE, c, 0),
         NameStr("callback", FALSE, fv, 0)>>
  ELSE IF sel = "cbNone" THEN <<NameStr("callback", FALSE, fn, 0)>>
  ELSE IF sel = "cbNoneDC"
  THEN <<NameStr("callback", FALSE, fn, 0), NameStr("data", FALSE, dr, 0),
         NameStr("count", TRUE, c, 0)>>
  ELSE IF sel = "cbNotFn"
  THEN <<NameStr("callback", TRUE, 5, 0), NameStr("count", TRUE, c, 0),
         NameStr("data", FALSE, dr, 0)>>
  ELSE <<NameStr("callback", TRUE, 5, 0)>>

\* The cells every wrapper may refer to are at base + 1 (the string "x"),
\* base + 2 and base + 3 (the two functions).
AddWrap(h, sel, dr, c) ==
  IF sel = "bare" THEN [h |-> h, r |-> dr]
  ELSE IF sel = "arr2"
  THEN AddContainer(h, ArrVar(2, 0),
                    <<NameInt(0, FALSE, dr, 0), NameInt(1, FALSE, dr, 0)>>)
  ELSE AddContainer(h \o MkChain(<<120>>, MaxCap, MaxCap, Len(h))
                      \o <<FnVar(dr), FnVar(0)>>,
                    ObjVar(0),
                    WrapNames(sel, dr, c, Len(h) + 1, Len(h) + 2, Len(h) + 3))

\* What the caller's memory holds before to-bytes.
Untouched == 170

\* g: dsel, wsel, c the value as chosen, dr the data cell and x the value
\* walked, s the buffer size, sgn the build's char signedness, cnt and byt
\* the outcomes [done, v, ok, ev] of count and to-bytes, mem the caller's
\* memory (the buffer and two bytes after it).
WalkInit ==
  \E dsel \in DataChoices, wsel \in WrapChoices, c \in -1..MaxCount,
     s \in 0..MaxBuf, sgn \in BOOLEAN :
    /\ wsel \notin WrapsWithCount => c = 0
    /\ \E d \in {AddData(<<>>, dsel)} :
         \E w \in {AddWrap(d.h, wsel, d.r, c)} :
           /\ heap = w.h
           /\ it = NoUnified
           /\ g = [dsel |-> dsel, wsel |-> wsel, c |-> c, dr |-> d.r, x |-> w.r,
                   s |-> s, sgn |-> sgn,
                   cnt |-> [done |-> FALSE, v |-> 0, ok |-> TRUE, ev |-> <<>>],
                   byt |-> [done |-> FALSE, v |-> 0, ok |-> TRUE, ev |-> <<>>],
                   mem |-> [k \in 1..(s + 2) |-> Untouched]]

WalkCount ==
  /\ ~g.cnt.done
  /\ \E w \in {jsvIterateCallbackCount(heap, g.x, g.sgn)} :
       /\ heap' = w.h
       /\ g' = [g EXCEPT !.cnt = [done |-> TRUE, v |-> w.v, ok |-> w.ok, ev |-> w.ev]]
  /\ UNCHANGED it

WalkToBytes ==
  /\ ~g.byt.done
  /\ \E w \in {jsvIterateCallbackToBytes(heap, g.x, g.mem, g.s, g.sgn)} :
       /\ heap' = w.h
       /\ g' = [g EXCEPT !.byt = [done |-> TRUE, v |-> w.v, ok |-> w.ok, ev |-> w.ev],
                         !.mem = w.mem]
  /\ UNCHANGED it

WalkNextAct ==
  \/ WalkCount
  \/ WalkToBytes

SpecWalk == WalkInit /\ [][WalkNextAct]_vars

\* ------------------------------------- walker: one call at a time
\* The walk run one invocation step at a time: g.m is the walker's
\* machine state (heap = g.m.h), g.sel the value walked, g.nest its nesting
\* depth.  A walk nested MaxDepth deep goes no further.
MaxDepth == 6

DeepData == {"num7", "str0", "arr123", "arrHole", "arrNested", "null", "objDC", "objEmpty"}

DeepWraps == {"bare", "dc", "cb", "cbNone", "arr2"}

\* arrSelf: an array whose element 0 is the array; cbSelf: {callback: f},
\* f returning the object; dcSelf: {data: the object, count: 1}.
DeepCycles == {"arrSelf", "cbSelf", "dcSelf"}

DeepChoices ==
  [d : DeepData, w : DeepWraps, c : {1, 2}] \cup [d : DeepCycles, w : {"cycle"}, c : {1}]

AddDeep(sel) ==
  IF sel.d = "arrSelf" THEN AddContainer(<<>>, ArrVar(1, 0), <<NameInt(0, FALSE, 1, 0)>>)
  ELSE IF sel.d = "cbSelf"
  THEN AddContainer(<<FnVar(2)>>, ObjVar(0), <<NameStr("callback", FALSE, 1, 0)>>)
  ELSE IF sel.d = "dcSelf"
  THEN AddContainer(<<>>, ObjVar(0),
                    <<NameStr("data", FALSE, 1, 0), NameStr("count", TRUE, 1, 0)>>)
  ELSE LET d == AddData(<<>>, sel.d) IN AddWrap(d.h, sel.w, d.r, sel.c)

\* The values an array's or object's children name, a function child
\* standing for the value it returns.
Inside(h, r) ==
  LET kids == Siblings(h, h[r].firstChild)
  IN  {IF Kind(h, h[kids[k]].firstChild) = "fn"
         THEN h[h[kids[k]].firstChild].ret ELSE h[kids[k]].firstChild :
       k \in {j \in 1..Len(kids) : ~h[kids[j]].packed}}

\* The nesting depth of the value r: the most arrays and objects on a way
\* into it that meets none of them twice.
RECURSIVE Nesting(_, _, _)
Nesting(h, r, seen) ==
  IF r \in seen \/ Kind(h, r) \notin {"arr", "obj"} THEN 0
  ELSE LET in == {Nesting(h, s, seen \cup {r}) : s \in Inside(h, r)}
       IN  1 + (IF in = {} THEN 0 ELSE CHOOSE x \in in : \A y \in in : y <= x)

\* The invocations of jsvIterateCallback that have not returned.
Invocations(m) == Len(m.stack) + (IF m.mode = "call" THEN 1 ELSE 0)

Finished(m) == m.mode = "ret" /\ m.stack = <<>>

DeepInit ==
  \E sel \in DeepChoices :
    \E v \in {AddDeep(sel)} :
      /\ heap = v.h
      /\ it = NoUnified
      /\ g = [sel |-> sel, x |-> v.r, nest |-> Nesting(v.h, v.r, {}),
              m |-> [h |-> v.h, d |-> NoSinkData, ev |-> <<>>, stack |-> <<>>,
                     mode |-> "call", cur |-> v.r, ok |-> TRUE, cb |-> "count",
                     sgn |-> FALSE]]

\* jsvIterateCallback is entered.
DeepEnter ==
  /\ g.m.mode = "call"
  /\ Len(g.m.stack) < MaxDepth
  /\ \E m \in {Enter(g.m)} :
       /\ heap' = m.h
       /\ g' = [g EXCEPT !.m = m]
  /\ UNCHANGED it

\* An invocation returned to the loop, or the return, that called it.
DeepResume ==
  /\ g.m.mode = "ret"
  /\ g.m.stack # <<>>
  /\ \E m \in {Resume(g.m)} :
       /\ heap' = m.h
       /\ g' = [g EXCEPT !.m = m]
  /\ UNCHANGED it

DeepNextAct ==
  \/ DeepEnter
  \/ DeepResume

\* The C code runs on: every enabled step is taken.
SpecDeep == DeepInit /\ [][DeepNextAct]_vars /\ WF_vars(DeepNextAct)

\* --------------------------------------- walk of a typed view
\* heap holds the backing string (root cell 1), which ends with the view
\* or one byte after it, and the typed view (g.x).
\* g: view the view, walk the outcome [done, ok, ev] of the walker on the
\* view, loop that of the general has-element / get-integer / next loop
\* on a cursor created at element 0.
NotDone == [done |-> FALSE, ok |-> TRUE, ev |-> <<>>]

ViewInit ==
  \E type \in BufTypes, len \in 0..MaxViewLen, off \in {0, 1}, after \in {0, 1} :
    \E s \in {[i \in 1..(off + len * type.size + after) |-> PatByte(i, off)]} :
      \E v \in {AddVar(MkChain(s, MaxCap - 1, MaxCap - 1, 0), AbVar(type, len, off, 1))} :
        /\ heap = v.h
        /\ it = NoCursor
        /\ g = [view |-> heap[v.r], x |-> v.r, walk |-> NotDone, loop |-> NotDone]

ViewWalk ==
  /\ ~g.walk.done
  /\ \E w \in {jsvIterateCallback(heap, g.x, "count", NoSinkData, FALSE)} :
       /\ heap' = w.h
       /\ g' = [g EXCEPT !.walk = [done |-> TRUE, ok |-> w.ok, ev |-> w.ev]]
  /\ UNCHANGED it

\* The loop of the general path, on any tag.
ViewLoop ==
  /\ ~g.loop.done
  /\ \E w \in {IterateBuffer(jsvArrayBufferIteratorNew(heap, g.view, 0, NoCursor),
                             "count", NoSinkData, <<>>)} :
       /\ heap' = w.h
       /\ g' = [g EXCEPT !.loop = [done |-> TRUE, ok |-> w.ok, ev |-> w.ev]]
  /\ UNCHANGED it

ViewNextAct ==
  \/ ViewWalk
  \/ ViewLoop

SpecView == ViewInit /\ [][ViewNextAct]_vars

\* --------------------------------------------------- walker: the claims
IsEmit(e) == e.e = "emit"

IsCall(e) == e.e = "call"

\* The integers a walk handed to its sink, in order.
EmitInts(ev) ==
  LET em == SelectSeq(ev, IsEmit) IN [j \in 1..Len(em) |-> em[j].n]

\* C8: to-bytes returns the number N of integers the walker emitted, which
\* is what count returns for the same value; the caller's memory holds the
\* low byte of the j-th integer at offset j for j < min(N, s) and is
\* untouched from min(N, s) on, inside the buffer and after it.
C8_ToBytes ==
  g.byt.done =>
    LET e == EmitInts(g.byt.ev)
        N == Len(e)
    IN  /\ g.byt.v = N
        /\ g.byt.v = jsvIterateCallbackCount(heap, g.x, g.sgn).v
        /\ g.cnt.done => g.cnt.v = N
        /\ \A k \in 1..Len(g.mem) :
             g.mem[k] = IF k <= Min(N, g.s) THEN e[k] % 256 ELSE Untouched

\* The 10-byte string went into a 4-byte buffer: 4 bytes written, 10
\* returned.
C8_Witness ==
  /\ g.dsel = "str10" /\ g.wsel = "bare" /\ g.s = 4
  /\ g.byt.done
  /\ g.byt.v = 10
  /\ g.mem = <<97, 98, 200, 100, Untouched, Untouched>>

\* The trace of the {data, count} rule: the three lookups, then n walks of
\* data, each with the trace one.
RECURSIVE Repetitions(_, _, _)
Repetitions(one, left, n) ==
  IF n = 0 THEN <<>>
  ELSE <<Ev("rep", left - 1, "")>> \o one \o Repetitions(one, left - 1, n - 1)

DataCountTrace(one, c, n) ==
  <<Ev("get", 0, "callback"), Ev("get", 0, "count"), Ev("get", 0, "data")>>
  \o Repetitions(one, c, n)

\* The walk of the data alone.
DataAlone == jsvIterateCallbackCount(heap, g.dr, g.sgn)

\* How many walks of data the {data, count} rule makes: max(c, 0) when the
\* walk of data succeeds, otherwise one (none when c <= 0).
C9_Walks == IF DataAlone.ok THEN Max(g.c, 0) ELSE Min(Max(g.c, 0), 1)

\* C9: an object with no callback function, a numeric count c and a data
\* property walks data max(c, 0) times in sequence when the walk of data
\* succeeds, and stops with failure after the first walk of data that
\* fails.
C9_DataCount ==
  (g.cnt.done /\ g.wsel \in {"dc", "cbNotFn"}) =>
    /\ g.cnt.ev = DataCountTrace(DataAlone.ev, g.c, C9_Walks)
    /\ g.cnt.ok = (C9_Walks = 0 \/ DataAlone.ok)
    /\ g.cnt.v = C9_Walks * DataAlone.v

\* count({data: 7, count: 3}) = 3.
C9_Witness ==
  /\ g.dsel = "num7" /\ g.wsel = "dc" /\ g.c = 3
  /\ g.cnt.done
  /\ g.cnt.ok
  /\ g.cnt.v = 3

\* C10: a callback property that is a function is executed once, with no
\* arguments, and data and count are not looked up; the outcome and the
\* emissions are those of walking the value it returns, and success with
\* no emission when it returns nothing; a callback property that is not a
\* function is not executed and the {data, count} rule decides.
C10_Callback ==
  g.cnt.done =>
    /\ g.wsel \in {"cb", "cbDC"} =>
         /\ g.cnt.ev = <<Ev("get", 0, "callback"), Ev("call", 0, "")>> \o DataAlone.ev
         /\ g.cnt.ok = DataAlone.ok
         /\ g.cnt.v = DataAlone.v
         /\ Len(SelectSeq(g.cnt.ev, IsCall)) = 1
    /\ g.wsel \in {"cbNone", "cbNoneDC"} =>
         /\ g.cnt.ev = <<Ev("get", 0, "callback"), Ev("call", 0, "")>>
         /\ g.cnt.ok
         /\ g.cnt.v = 0
    /\ g.wsel = "cbNotFn" =>
         /\ SelectSeq(g.cnt.ev, IsCall) = <<>>
         /\ SubSeq(g.cnt.ev, 1, 3) = DataCountTrace(<<>>, 0, 0)
         /\ g.cnt.ok = (C9_Walks = 0 \/ DataAlone.ok)
         /\ EmitInts(g.cnt.ev) = EmitInts(Repetitions(DataAlone.ev, g.c, C9_Walks))
    /\ g.wsel = "cbNotFnOnly" =>
         /\ SelectSeq(g.cnt.ev, IsCall) = <<>>
         /\ ~g.cnt.ok

\* A callback returning [1, 2, 3]: the walker emitted 1, 2, 3.
C10_Witness ==
  /\ g.dsel = "arr123" /\ g.wsel = "cb"
  /\ g.cnt.done
  /\ g.cnt.ok
  /\ EmitInts(g.cnt.ev) = <<1, 2, 3>>

\* The positions of the type errors in a trace.
TypeErrors(ev) == {k \in 1..Len(ev) : ev[k].e = "typeerror"}

\* A finished walk r = [done, v, ok, ev] is fail-fast: at most one type
\* error, nothing in the trace after it, and success exactly without one.
FailFast(r) ==
  /\ Cardinality(TypeErrors(r.ev)) <= 1
  /\ \A k \in TypeErrors(r.ev) : k = Len(r.ev)
  /\ r.ok <=> TypeErrors(r.ev) = {}

\* C11: the walker is fail-fast: the first type error ends the walk, the
\* sink is not called after it, no further element, repetition or
\* callback is processed, at most one type error is raised per walk, and
\* the walk succeeds exactly when none was raised.
C11_FailFast ==
  /\ g.cnt.done => FailFast(g.cnt)
  /\ g.byt.done => FailFast(g.byt)

\* {data: [1, [2, null, 4], 3], count: c} with c >= 2: the walk emitted 1
\* and 2, raised the type error on null and stopped there.
C11_Witness ==
  /\ g.dsel = "arrNested" /\ g.wsel = "dc" /\ g.c >= 2
  /\ g.cnt.done
  /\ ~g.cnt.ok
  /\ EmitInts(g.cnt.ev) = <<1, 2>>
  /\ g.cnt.ev[Len(g.cnt.ev)].e = "typeerror"

\* ------------------------------------------ string cursor: more claims
\* The step is the operation op of the string machine.
StrStep(op) == g'.ops = Append(g.ops, op)

\* The cells of a heap with the lock counts left out.
Unlocked(h) == [r \in 1..Len(h) |-> [h[r] EXCEPT !.locks = 0]]

\* The cursor i reports logical end.
AtLogicalEnd(h, i) ==
  /\ i.var = 0
  /\ i.ptr = 0
  /\ ~jsvStringIteratorHasChar(i)
  /\ jsvStringIteratorGetCharOrMinusOne(h, i) = -1

\* C13: an append whose allocation fails appends nothing: the chain's
\* cells and logical bytes are as before the call and the cursor is left
\* at logical end (null cell, null pointer, has-char false,
\* get-char-or-minus-one -1); every later append or set-char through the
\* cursor leaves the chain as it is.
C13_AppendOutOfMemory ==
  [][/\ (StrStep("append") /\ ~g.oom /\ g'.oom) =>
          /\ Unlocked(heap') = Unlocked(heap)
          /\ ChainBytes(heap', 1) = ChainBytes(heap, 1)
          /\ AtLogicalEnd(heap', it')
     /\ (g.oom /\ (StrStep("append") \/ StrStep("setchar"))) =>
          /\ heap' = heap
          /\ AtLogicalEnd(heap', it')]_vars

\* A failed append on a full tail, then a set-char and an append: the
\* chain still holds the bytes it was created with.
C13_Witness ==
  /\ g.oom
  /\ Len(g.s0) > 0
  /\ g.ops = <<"gotoend", "append", "setchar">> \/ g.ops = <<"gotoend", "append", "append">>
  /\ AtLogicalEnd(heap, it)
  /\ ChainBytes(heap, 1) = g.s0

\* The used lengths of the cells before cell v in the chain from r on,
\* added up.
RECURSIVE UsedBefore(_, _, _)
UsedBefore(h, r, v) ==
  IF r = 0 \/ r = v THEN 0 ELSE h[r].used + UsedBefore(h, h[r].lastChild, v)

InChain(h, r, v) == \E k \in 1..Len(ChainRefs(h, r)) : ChainRefs(h, r)[k] = v

\* The cursor is on a cell of the chain, varIndex is the number of bytes
\* before that cell and varIndex + charIdx the place of the byte has-char
\* and get-char give.
PositionOnCell ==
  /\ InChain(heap, 1, it.var)
  /\ it.varIndex = UsedBefore(heap, 1, it.var)
  /\ jsvStringIteratorHasChar(it) =>
       /\ it.varIndex + it.charIdx < Len(ChainBytes(heap, 1))
       /\ jsvStringIteratorGetChar(heap, it)
            = ChainBytes(heap, 1)[it.varIndex + it.charIdx + 1]

\* C18: in every state reached by new, next, goto-end and append, varIndex
\* is the sum of the used lengths of the cells before the current cell and
\* varIndex + charIdx the cursor's absolute position; whenever the cell
\* reference is null (after running off the end, after new beyond the
\* length, after a failed append) varIndex + charIdx is at or beyond the
\* chain's logical length.
C18_Original ==
  /\ it.var # 0 => PositionOnCell
  /\ it.var = 0 =>
       /\ it.varIndex + it.charIdx >= Len(ChainBytes(heap, 1))
       /\ ~jsvStringIteratorHasChar(it)

RECURSIVE SumUsed(_, _)
SumUsed(h, r) == IF r = 0 THEN 0 ELSE h[r].used + SumUsed(h, h[r].lastChild)

\* I1 and the chain's length: every cell but the tail is full, no cell
\* holds more than its capacity, the logical length is the sum of the
\* used lengths and the tail has no last-child.
ChainShape(h) ==
  LET refs == ChainRefs(h, 1) IN
  /\ \A k \in 1..Len(refs) :
       /\ h[refs[k]].used <= h[refs[k]].cap
       /\ k < Len(refs) => h[refs[k]].used = h[refs[k]].cap
  /\ h[refs[Len(refs)]].lastChild = 0
  /\ Len(ChainBytes(h, 1)) = SumUsed(h, 1)

\* C19: append and append-string keep the chain's shape: every non-tail
\* cell is full, an extension cell is allocated only when the tail is
\* full, the logical length is the sum of the cells' used lengths (the
\* old length plus the bytes appended when no allocation fails) and the
\* tail's last-child is null.
C19_ChainShape ==
  [][((StrStep("append") \/ StrStep("appendstring")) /\ it.var # 0
        /\ ChainShape(heap)) =>
       /\ ChainShape(heap')
       /\ (StrStep("append") /\ Len(ChainRefs(heap', 1)) > Len(ChainRefs(heap, 1))) =>
            heap[it.var].used = heap[it.var].cap
       /\ ~g'.oom =>
            ChainBytes(heap', 1)
              = ChainBytes(heap, 1) \o SubSeq(g'.app, Len(g.app) + 1, Len(g'.app))]_vars

\* goto-end, append, append-string of "yz" on a chain of more than one
\* cell: the chain has grown by three bytes and at least one cell.
C19_Witness ==
  /\ g.ops = <<"gotoend", "append", "appendstring">>
  /\ ~g.oom
  /\ g.app = <<101, 121, 122>>
  /\ Len(g.s0) > heap[1].cap
  /\ Len(ChainRefs(heap, 1)) > Len(MkChain(g.s0, heap[1].cap, g.extCap, 0))
  /\ ChainShape(heap)
  /\ ChainBytes(heap, 1) = g.s0 \o g.app

\* ------------------------------------ typed view: more claims
UndefOps == {"getvalue", "getinteger", "setvalue", "setinteger", "next", "free"}

UndefStep == Undefined(it) /\ g'.rd.st \in UndefOps

\* The starting byte of element k of the view lies with its width within
\* the view's bytes.
StartsInside(k) ==
  g.view.byteOffset + (k + 1) * g.view.type.size
    <= g.view.byteOffset + g.view.length * g.view.type.size

\* C14: a cursor created where byteOffset + width exceeds the view's end
\* is undefined; every operation on it (get-value, get-integer, set-value,
\* set-integer, next, free) leaves the cursor, the cells' bytes and the
\* lock counts as they were, reads return 0, and has-element is false.
C14_Original ==
  /\ [](~StartsInside(it.index) => Undefined(it))
  /\ [](Undefined(it) => ~jsvArrayBufferIteratorHasElement(it))
  /\ [][UndefStep => (it' = it /\ heap' = heap /\ g'.rd.val = IntVal(0))]_vars

\* The byte the inner string cursor is on, counted from the start of the
\* backing string.
InnerPos(a) == a.it.varIndex + a.it.charIdx

\* A get or set that went through an element of more than one byte.
Accessed == ~g.asserted /\ ~g'.asserted /\ ~it.hasAccessedElement /\ it'.hasAccessedElement

\* C16 as stated: after a get or set of an element wider than one byte the
\* inner cursor is on the element's last byte with hasAccessedElement set,
\* and the following next moves it by one byte, onto the next element's
\* first byte, and clears the flag.
C16_Original ==
  /\ [][Accessed =>
          /\ it.type.size > 1
          /\ InnerPos(it') = it.byteOffset + it.type.size - 1]_vars
  /\ [][(it.hasAccessedElement /\ BufNext) =>
          /\ InnerPos(it') = InnerPos(it) + 1
          /\ InnerPos(it') = it'.byteOffset
          /\ ~it'.hasAccessedElement]_vars

\* C16 amended: the get or set starts on the element's first byte and
\* leaves the inner cursor one byte past the element's last byte, which is
\* the next element's first byte, with hasAccessedElement set; the
\* following next moves index and byteOffset on by one element, leaves the
\* inner cursor where it is and clears the flag.
C16_AccessThenNext ==
  /\ [][Accessed =>
          /\ it.type.size > 1
          /\ InnerPos(it) = it.byteOffset
          /\ InnerPos(it') = it.byteOffset + it.type.size
          /\ it'.byteOffset = it.byteOffset
          /\ it'.index = it.index]_vars
  /\ [][(it.hasAccessedElement /\ BufNext) =>
          /\ it'.it = it.it
          /\ heap' = heap
          /\ it'.index = it.index + 1
          /\ it'.byteOffset = it.byteOffset + it.type.size
          /\ InnerPos(it') = it'.byteOffset
          /\ ~it'.hasAccessedElement]_vars

\* A four-byte element at index 1 has been read: the inner cursor is on
\* the first byte of element 2.
C16_Witness ==
  /\ g.view.type.size = 4
  /\ g.view.byteOffset = 1
  /\ it.index = 1
  /\ g.rd.st = "read"
  /\ it.hasAccessedElement
  /\ InnerPos(it) = 9

\* ------------------------------------ unified cursor: the claims
\* C17: on a unified cursor over a typed view of multi-byte elements no
\* sequence of get-value, get-integer, set-value and next made while
\* has-element is true fails the assertion that hasAccessedElement is
\* false at the start of an element read or write.
C17_Original ==
  (it.type = "ARRAYBUFFER" /\ it.buf.type.size > 1) => ~g.asserted

\* The cell the cursor u is on (0: none).
Current(u) ==
  IF u.type \in {"FULLARRAY", "OBJECT"} THEN u.obj.var
  ELSE IF u.type = "STRING" THEN u.str.var
  ELSE IF Undefined(u.buf) THEN 0
  ELSE u.buf.it.var

\* The locks the live cursor u is to hold on the cell r.
Holds(u, r) ==
  (IF Current(u) = r THEN 1 ELSE 0)
  + (IF u.type = "FULLARRAY" /\ u.var = r THEN 1 ELSE 0)

\* C12: a live cursor holds one lock on its current cell (none at logical
\* end or when the typed view is undefined) and one on the array under
\* FULL-ARRAY, a clone likewise; every other lock taken by new, next, get,
\* set or clone has been given back, so that after the free of the cursor
\* and of its clone every cell's lock count is what it was before creation.
C12_Original ==
  \A r \in 1..Len(heap) :
    heap[r].locks = (IF g.freed THEN 0 ELSE Holds(it, r))
                    + (IF g.cl = "live" THEN Holds(g.clone, r) ELSE 0)

\* What the loop has-element / get-integer / next reads from the cursor u
\* until has-element is false (ok FALSE: the read would fail the typed
\* view's assertion, and the loop stops there).
RECURSIVE ReadAll(_, _)
ReadAll(h, u) ==
  IF ~jsvIteratorHasElement(h, u) THEN <<>>
  ELSE IF ~UniAssert(u) THEN <<[ok |-> FALSE, v |-> 0]>>
  ELSE LET r == jsvIteratorGetIntegerValue(h, u, FALSE)
           w == jsvIteratorNext(r.h, r.it)
       IN  <<[ok |-> TRUE, v |-> r.v]>> \o ReadAll(w.h, w.it)

\* C15: clone, next on the clone and free of the clone leave the original
\* cursor's state as it was, and what the original reads from its position
\* on is what it read before them; the clone, read from where it was
\* created, reads what the original reads.
C15_CloneIndependent ==
  /\ [][(g'.op \in {"clone", "clonenext", "clonefree"}) =>
          /\ it' = it
          /\ ~g.freed => ReadAll(heap', it') = ReadAll(heap, it)]_vars
  /\ [][(g'.op = "clone" /\ g.cl = "none") =>
          ReadAll(heap', g'.clone) = ReadAll(heap, it)]_vars

\* The clone of a string cursor taken at the second byte of "abc" has run
\* to the end and been freed; the original still reads "bc".
C15_Witness ==
  /\ g.sel = "str"
  /\ g.cl = "freed"
  /\ ~g.freed
  /\ ~jsvIteratorHasElement(heap, g.clone)
  /\ it.str.varIndex + it.str.charIdx = 1
  /\ ReadAll(heap, it) = <<[ok |-> TRUE, v |-> 98], [ok |-> TRUE, v |-> 99]>>

\* ---------------------------- object-children cursor: the claims
\* The cells of the children c1..cn, in their original order.
OriginalChildren == [k \in 1..g.n |-> k + 1]

\* C20: applying next or remove-and-next at each position visits the
\* original children once each in their order; the cursor is on the
\* original child after the ones visited (the former next-sibling of a
\* child just removed), or on none after the last; the container holds
\* the children passed with next followed by those not yet visited, in
\* the original order, and only the former once has-value is false.
C20_RemoveAndNext ==
  LET v == Len(g.visited) IN
  /\ g.visited = SubSeq(OriginalChildren, 1, v)
  /\ it.var = IF v < g.n THEN OriginalChildren[v + 1] ELSE 0
  /\ Siblings(heap, heap[1].firstChild) = g.kept \o SubSeq(OriginalChildren, v + 1, g.n)
  /\ ~jsvObjectIteratorHasValue(it) =>
       /\ g.visited = OriginalChildren
       /\ Siblings(heap, heap[1].firstChild) = g.kept
  /\ \A r \in 1..Len(heap) : heap[r].locks = IF r = it.var THEN 1 ELSE 0

\* Of four children the second and the third were removed and the others
\* passed with next.
C20_Witness ==
  /\ g.n = 4
  /\ g.visited = <<2, 3, 4, 5>>
  /\ g.kept = <<2, 5>>
  /\ ~jsvObjectIteratorHasValue(it)
  /\ Siblings(heap, heap[1].firstChild) = <<2, 5>>

\* C22: from new(view, k) on, index grows by one per next and by nothing
\* else (so index = k + the number of next calls), byteOffset is the
\* view's start + index * width, and the inner string cursor is on the
\* byte byteOffset whenever hasAccessedElement is false and has-element is
\* true; get-and-rewind and set-and-rewind leave index, byteOffset, the
\* flag (false) and the inner cursor as they were.
C22_Position ==
  /\ [](/\ it.byteOffset = g.view.byteOffset + it.index * g.view.type.size
        /\ (~it.hasAccessedElement /\ jsvArrayBufferIteratorHasElement(it)) =>
             InnerPos(it) = it.byteOffset)
  /\ [][\/ /\ it'.index = it.index + 1
           /\ it'.byteOffset = it.byteOffset + g.view.type.size
        \/ ~BufNext]_vars
  /\ [][\/ it'.index = it.index
        \/ BufNext
        \/ BufNew]_vars
  /\ [][\/ ~it.hasAccessedElement /\ it' = it
        \/ g'.asserted
        \/ ~(BufGetRewind \/ BufSetRewind)]_vars

\* Element 1 of a four-byte view at offset 1, reached by next after a
\* write of element 0, has been read with the inner cursor back on its
\* first byte.
C22_Witness ==
  /\ g.view.type.size = 4
  /\ g.view.byteOffset = 1
  /\ g.written[0].how = "value"
  /\ g.rd = [st |-> "read", idx |-> 1, val |-> g.rd.val]
  /\ it.index = 1
  /\ it.byteOffset = 5
  /\ ~it.hasAccessedElement
  /\ InnerPos(it) = 5

\* ------------------------------ walk of a typed view: the claims
\* The byte j (from 0, in storage order) of element k of the view.
ElementByte(k, j) == ViewBytes[g.view.byteOffset + k * g.view.type.size + j + 1]

\* The integer of element k: its bytes, most significant first on a
\* big-endian tag and last otherwise, as a number of 8 * width bits,
\* negative from the top bit on when the tag is signed; a 32-bit element
\* is the JsVarInt of those bits.
Decoded(k) ==
  LET size == g.view.type.size
      byte(j) == IF g.view.type.bigEndian THEN ElementByte(k, size - 1 - j)
                 ELSE ElementByte(k, j)
      top  == byte(size - 1)
      low  == IF size = 1 THEN 0
              ELSE IF size = 2 THEN byte(0)
              ELSE byte(0) + 256 * byte(1) + 65536 * byte(2)
      neg  == top >= 128 /\ (g.view.type.signed \/ size = 4)
  IN  low + Pow2(8 * (size - 1)) * (IF neg THEN top - 256 ELSE top)

DecodedAll == [k \in 1..g.view.length |-> Decoded(k - 1)]

C21_Original ==
  /\ [](Invocations(g.m) <= g.nest + 1)
  /\ <>Finished(g.m)

\* --------------------------------------- FULL-ARRAY: read after write
\* The value of array item index, 0 where the array has no such child.
ArrayItem(h, arr, index) ==
  LET kids == Siblings(h, h[arr].firstChild)
      at   == {k \in 1..Len(kids) : h[kids[k]].ikey = index}
  IN  IF at = {} THEN 0
      ELSE LET c == kids[CHOOSE k \in at : TRUE]
           IN  IF h[c].packed THEN 0 ELSE h[c].firstChild

\* What the cursor enumerates after its current index.
ReadRest(h, u) ==
  LET w == jsvIteratorNext(h, u) IN ReadAll(w.h, w.it)

\* C23: after set-value(v) at index i of a FULL-ARRAY cursor, on a child
\* or on a hole, array item i is v, get-value at the same position returns
\* v, and the values enumerated at the later indices are as before.
C23_Original ==
  [][\/ g'.op # "setvalue"
     \/ ~UniSetValue
     \/ /\ ArrayItem(heap', it.var, it.index) = g.val
        /\ jsvIteratorGetValue(heap', it').r = g.val
        /\ ReadRest(heap', it') = ReadRest(heap, it)]_vars

====
